---- MODULE Spec2Model ----
(***************************************************************************)
(* The session relay of gogogo: the web server's client registry, size     *)
(* reconciler, output broadcaster with its history buffer, message router  *)
(* and per-client ASR bridge (src/src/web-server.ts), over the             *)
(* pseudo-terminal controller (src/src/pty.ts) as wired by startSession    *)
(* (src/src/context-extractor.ts, lines 257-387).                          *)
(*                                                                         *)
(* Every handler of the event loop is one atomic action: Node runs a       *)
(* callback to completion, and none of the handlers modelled here awaits.  *)
(***************************************************************************)
EXTENDS Integers, Sequences, FiniteSets, TLC

VARIABLES
    relayUp,           \* the relay process is alive (no process.exit, no uncaught exception)
    ptyProcess,        \* pty.ts: ptyProcess !== null
    ptySize,           \* the size the pseudo-terminal currently has
    localSize,         \* pty.ts: localCols, localRows
    exitCallback,      \* pty.ts: the single exitCallback slot
    connectedClients,  \* web-server.ts: keys of the Map, in insertion order
    clientInfo,        \* web-server.ts: the clientInfo object of each connection
    wsState,           \* readyState of each client WebSocket (server side)
    outputBuffer,      \* web-server.ts: outputBuffer
    clientIdCounter,   \* web-server.ts: clientIdCounter
    wire,              \* every message handed to a client socket's send(), in order
    ptyWrites,         \* every string writeToPTY handed to ptyProcess.write(), in order
    produced,          \* history: every chunk the PTY has emitted, in order
    connectAt,         \* history: Len(produced) when the connection registered
    closingAt,         \* history: Len(produced) when the socket left OPEN
    asrConn,           \* the backend WebSockets created so far
    timers,            \* pending asr_stop grace timers of each clientInfo
    backendMsgs,       \* number of backend events delivered so far
    claudeReqs,        \* the claude_process requests handled so far, with their routing
    failedAttempts,    \* web-server.ts: failedAttempts (an absent key reads as 0)
    blockedIPs,        \* web-server.ts: blockedIPs
    blockTimers,       \* the addresses with a pending unblock timer
    cookies,           \* the addresses whose browser holds the auth cookie
    phase,             \* startSession's position: binding, tunnel, spawn, started, exited
    exitStatus,        \* the status the process ended with, -1 while it runs
    tunnelProcess,     \* cloudflare-tunnel.ts: tunnelProcess is set (not null)
    tunnelChild,       \* the cloudflared child: none, running, killed, closed
    urlFound,          \* startTunnelProcess: urlFound
    tunnelTimer,       \* the 30 second timeout is armed
    tunnelPromise,     \* the promise startTunnel returned: its state and value
    tunnelUrl,         \* cloudflare-tunnel.ts: tunnelUrl ("" for null)
    firstUrl,          \* the first URL the child has printed ("" for none yet)
    tunnelWs,          \* vortex-tunnel.ts: readyState of the socket to the gateway
    websocketConnections, \* vortex-tunnel.ts: the connection ids the map has a socket for
    localWs,           \* readyState of the local socket created for each connection id
    gatewayPhase,      \* what the gateway has delivered for each id: idle, connected, disconnected
    delivered,         \* the websocket_message data the gateway delivered, per id
    forwarded,         \* the data sent on the local socket, per id
    toGateway,         \* the messages sent to the gateway
    terminalWs,        \* browser: readyState of window.terminalWs
    isRecording,       \* TerminalASR: isRecording
    asrSessionActive,  \* TerminalASR: asrSessionActive
    sessionReady,      \* TerminalASR: sessionReady
    sendInterval,      \* TerminalASR: the 100 ms send interval is armed
    audioBuffer,       \* TerminalASR: the chunks captured since the last flush
    pendingAudioBuffer, \* TerminalASR: the combined chunks held until asr_ready
    browserSent,       \* the messages the browser has sent on window.terminalWs
    captured,          \* history: the number of audio chunks captured so far
    startedAt,         \* history: the value of captured at the last asr_start
    readyCount,        \* history: the asr_ready messages the browser has received
    lastOp             \* history: the handler that ran last, and for whom

vars == <<relayUp, ptyProcess, ptySize, localSize, exitCallback, connectedClients,
          clientInfo, wsState, outputBuffer, clientIdCounter, wire, ptyWrites,
          produced, connectAt, closingAt, asrConn, timers, backendMsgs, claudeReqs,
          failedAttempts, blockedIPs, blockTimers, cookies, phase, exitStatus,
          tunnelProcess, tunnelChild, urlFound, tunnelTimer, tunnelPromise, tunnelUrl,
          firstUrl, tunnelWs, websocketConnections, localWs, gatewayPhase, delivered,
          forwarded, toGateway, terminalWs, isRecording, asrSessionActive,
          sessionReady, sendInterval, audioBuffer, pendingAudioBuffer, browserSent,
          captured, startedAt, readyCount, lastOp>>

ptyVars == <<ptyProcess, ptySize, localSize, exitCallback, ptyWrites>>
asrVars == <<asrConn, timers, backendMsgs, claudeReqs>>
termVars == <<outputBuffer, produced, connectAt, closingAt>>
authVars == <<failedAttempts, blockedIPs, blockTimers, cookies>>
startVars == <<phase, exitStatus>>
tunVars == <<tunnelProcess, tunnelChild, urlFound, tunnelTimer, tunnelPromise, tunnelUrl,
             firstUrl>>
vortexVars == <<tunnelWs, websocketConnections, localWs, gatewayPhase, delivered,
               forwarded, toGateway>>
browserVars == <<terminalWs, isRecording, asrSessionActive, sessionReady, sendInterval,
                audioBuffer, pendingAudioBuffer, browserSent, captured, startedAt,
                readyCount>>
sideVars == <<vortexVars, browserVars>>
extVars == <<tunVars, sideVars>>

(***************************************************************************)
(* Bounds of the model.                                                    *)
(***************************************************************************)
MaxClients == 2        \* client connections accepted in one run
MaxChunks == 2         \* output chunks the child process emits in one run
MaxWrites == 2         \* input messages written to the PTY in one run
MaxConns == 2          \* backend connections opened in one run
MaxBackendMsgs == 2    \* backend messages and audio chunks handled in one run
MaxTimers == 1         \* grace timers of one client pending at once
MaxVortexMsgs == 2     \* websocket_message frames the gateway delivers for one id
MaxLocalMsgs == 1      \* messages the local server sends on the sockets of the tunnel
MaxCaptured == 3       \* audio chunks the browser captures in one run
MaxStarts == 2         \* recordings the browser starts in one run
MaxRequests == 1       \* claude_process requests handled in one run
MaxProduced == 7003   \* chunks produced where the history buffer's trim is followed

(***************************************************************************)
(* Program constants.                                                      *)
(***************************************************************************)
MAX_BUFFER_SIZE == 5000
TrimTo == 3000
DefaultCols == 80
DefaultRows == 24
webCols == 0
webRows == 0
MAX_FAILED_ATTEMPTS == 10
serverPIN == "123456"  \* the relay is modelled with a PIN configured

ClientIds == 1..MaxClients
ConnIds == 1..MaxConns

Data == {"x", "y"}                 \* chunks the child process may emit
InputData == {"", "x", "y"}        \* msg.data of an input message
ReportCols == {-1, 0, 100}         \* msg.cols of a resize message
ReportRows == {0, 10}              \* msg.rows of a resize message
LocalSizes == {[cols |-> 120, rows |-> 40], [cols |-> 60, rows |-> 20]}
ExitCodes == {0, 1}
Contexts == {"", "ctx"}            \* msg.context of an asr_start
Urls == {"u1", "u2"}               \* tunnel URLs the child may print
Texts == {"a", "b"}                \* the texts a backend message carries
NoResponse == [type |-> "", text |-> "", original |-> "", corrected |-> "", message |-> ""]
VortexConnIds == {1, 2}            \* msg.conn_id of the gateway's messages
IPs == {"a", "b"}                  \* req.ip of the remote clients
Pins == {"123456", "654321", "12"} \* req.body.pin of a login request
AsrClientIds == {1}                \* the connections the ASR bridge is explored for
\* client messages no branch of the router handles: text that is not JSON, the
\* JSON values 42 and null, and an object whose type is unknown
BadMessages == {"invalid_json", "number", "null", "unknown_type"}

Min(a, b) == IF a < b THEN a ELSE b

Size(c, r) == [cols |-> c, rows |-> r]

Msg(to, type, data, code) == [to |-> to, type |-> type, data |-> data, code |-> code]

Registered(c) == \E i \in 1..Len(connectedClients) : connectedClients[i] = c

\* a faulty removal: the closed connection stays in the registry
FilterKeep(s, c) == s

RECURSIVE Filter(_, _)
Filter(s, c) ==
    IF s = <<>> THEN <<>>
    ELSE IF Head(s) = c THEN Filter(Tail(s), c)
         ELSE <<Head(s)>> \o Filter(Tail(s), c)

(***************************************************************************)
(* pty.ts                                                                  *)
(***************************************************************************)
getLocalSize == localSize

\* a faulty resize: the size is applied without testing ptyProcess
resizePTYUnguarded(size) == size

\* resizePTY(cols, rows): the size the PTY has afterwards
resizePTY(size) == IF ptyProcess THEN size ELSE ptySize

\* a faulty write: the new data goes in front of what was written before
writeToPTYFront(data) == IF ptyProcess THEN <<data>> \o ptyWrites ELSE ptyWrites

\* writeToPTY(data): the writes the PTY has received afterwards
writeToPTY(data) == IF ptyProcess THEN Append(ptyWrites, data) ELSE ptyWrites

(***************************************************************************)
(* relay.ts: the reconciler that pty.ts calls on a local resize.  The HTTP *)
(* relay is never started, so webCols and webRows keep their initial 0.    *)
(***************************************************************************)
relayApplyMinSize ==
    IF webCols = 0 \/ webRows = 0 THEN ptySize
    ELSE LET minCols == Min(getLocalSize.cols, webCols)
             minRows == Min(getLocalSize.rows, webRows)
         IN  IF minCols > 0 /\ minRows > 0 THEN resizePTY(Size(minCols, minRows))
             ELSE ptySize

(***************************************************************************)
(* web-server.ts: size reconciler                                          *)
(***************************************************************************)
RECURSIVE MinOver(_, _, _)
MinOver(clients, info, acc) ==
    IF clients = <<>> THEN acc
    ELSE LET ci == info[Head(clients)]
             next == IF ci.cols > 0 /\ ci.rows > 0
                     THEN Size(Min(acc.cols, ci.cols), Min(acc.rows, ci.rows))
                     ELSE acc
         IN  MinOver(Tail(clients), info, next)

\* a faulty reconciler: the minimum is taken without the cols > 0 && rows > 0 test
RECURSIVE MinOverAll(_, _, _)
MinOverAll(clients, info, acc) ==
    IF clients = <<>> THEN acc
    ELSE LET ci == info[Head(clients)]
         IN  MinOverAll(Tail(clients), info,
                        Size(Min(acc.cols, ci.cols), Min(acc.rows, ci.rows)))

calculateMinSizeNoFilter(clients, info) == MinOverAll(clients, info, getLocalSize)

calculateMinSize(clients, info) == MinOver(clients, info, getLocalSize)

\* a faulty reconciler: an empty registry leaves the PTY size as it is
applyMinSizeKeep(clients, info) ==
    IF Len(clients) = 0 THEN ptySize
    ELSE LET m == calculateMinSize(clients, info)
         IN  IF m.cols > 0 /\ m.rows > 0 THEN resizePTY(m) ELSE ptySize

\* applyMinSize(): the size the PTY has afterwards, given the registry
applyMinSize(clients, info) ==
    IF Len(clients) = 0 THEN resizePTY(getLocalSize)
    ELSE LET m == calculateMinSize(clients, info)
         IN  IF m.cols > 0 /\ m.rows > 0 THEN resizePTY(m) ELSE ptySize

(***************************************************************************)
(* web-server.ts: broadcaster                                              *)
(***************************************************************************)
\* a faulty broadcast: the loop sends without testing readyState
BroadcastAll(clients, type, data, code) ==
    [i \in 1..Len(clients) |-> Msg(clients[i], type, data, code)]

\* a faulty broadcast: the loop ends at the first client that is not open
RECURSIVE BroadcastUntilNotOpen(_, _, _, _)
BroadcastUntilNotOpen(clients, type, data, code) ==
    IF clients = <<>> THEN <<>>
    ELSE IF wsState[Head(clients)] = "open"
         THEN <<Msg(Head(clients), type, data, code)>>
              \o BroadcastUntilNotOpen(Tail(clients), type, data, code)
         ELSE <<>>

RECURSIVE Broadcast(_, _, _, _)
Broadcast(clients, type, data, code) ==
    IF clients = <<>> THEN <<>>
    ELSE (IF wsState[Head(clients)] = "open"
          THEN <<Msg(Head(clients), type, data, code)>> ELSE <<>>)
         \o Broadcast(Tail(clients), type, data, code)

\* a faulty replay: the history message is left out
historyReplayNone(c) == <<>>

\* a faulty replay: the oldest chunk of the buffer is left out of the payload
historyReplayTail(c) ==
    IF Len(outputBuffer) > 0 THEN <<Msg(c, "history", Tail(outputBuffer), 0)>> ELSE <<>>

\* the history replay of wss.on('connection'): what is sent to the new client c
historyReplay(c) ==
    IF Len(outputBuffer) > 0 THEN <<Msg(c, "history", outputBuffer, 0)>> ELSE <<>>

\* a faulty buffer: the chunk is not recorded
pushOutputNone(buf, data) == buf

\* a faulty trim: the oldest entries are kept instead of the newest
pushOutputHead(buf, data) ==
    LET b == Append(buf, data)
    IN  IF Len(b) > MAX_BUFFER_SIZE THEN SubSeq(b, 1, TrimTo) ELSE b

\* a faulty trim: the buffer is cut back to TrimTo on every push beyond it
pushOutputEager(buf, data) ==
    LET b == Append(buf, data)
    IN  IF Len(b) > TrimTo THEN SubSeq(b, Len(b) - TrimTo + 1, Len(b)) ELSE b

\* outputBuffer.push(data) followed by the trim
pushOutput(buf, data) ==
    LET b == Append(buf, data)
    IN  IF Len(b) > MAX_BUFFER_SIZE
        THEN SubSeq(b, Len(b) - TrimTo + 1, Len(b))
        ELSE b

\* ws lib: close() as called by the relay on a backend socket
closeSocket(conns, k) ==
    IF conns[k].state = "open" THEN [conns EXCEPT ![k].state = "closing"]
    ELSE IF conns[k].state = "connecting" THEN [conns EXCEPT ![k].state = "aborted"]
    ELSE conns

\* a faulty cleanup: the disconnect handler leaves the backend socket alone
closeAsrOnDisconnectLeak(conns, k) == conns

\* ws.on('close'): "Clean up ASR WebSocket if exists"
closeAsrOnDisconnect(conns, k) == IF k # 0 THEN closeSocket(conns, k) ELSE conns

\* isIPBlocked and isAuthenticated of web-server.ts
isIPBlocked(ip) == ip \in blockedIPs

isAuthenticated(ip) == ip \in cookies

\* what requireAuth lets through: the origin holds the cookie and is not blocked
Authorized(ip) == isAuthenticated(ip) /\ ~isIPBlocked(ip)

\* reported is history: a resize report of this client has been stored;
\* authorized is history: requireAuth would have let the origin through when
\* the connection was made
InitClientInfo == [cols |-> DefaultCols, rows |-> DefaultRows, asrWs |-> 0,
                   sessionReady |-> FALSE, reported |-> FALSE, authorized |-> FALSE,
                   terminalContext |-> ""]

\* the registry, the ASR bridge and the login state with no client yet
NoClients ==
    /\ exitStatus = -1
    /\ connectedClients = <<>>
    /\ clientInfo = [c \in ClientIds |-> InitClientInfo]
    /\ wsState = [c \in ClientIds |-> "none"]
    /\ clientIdCounter = 0
    /\ wire = <<>>
    /\ ptyWrites = <<>>
    /\ connectAt = [c \in ClientIds |-> 0]
    /\ closingAt = [c \in ClientIds |-> 0]
    /\ asrConn = [k \in ConnIds |-> [state |-> "unused", owner |-> 0, sent |-> <<>>,
                                     confirmed |-> FALSE, stoppedIn |-> "",
                                     context |-> ""]]
    /\ timers = [c \in ClientIds |-> 0]
    /\ backendMsgs = 0
    /\ claudeReqs = <<>>
    /\ failedAttempts = [ip \in IPs |-> 0]
    /\ blockedIPs = {}
    /\ blockTimers = {}
    /\ cookies = {}
    /\ lastOp = [op |-> "init", c |-> 0, k |-> 0, st |-> "Closed", d |-> "", pin |-> "",
                 resp |-> NoResponse]

\* the module state before the child is spawned
ModuleState ==
    /\ ptyProcess = FALSE
    /\ ptySize = Size(DefaultCols, DefaultRows)
    /\ localSize = Size(DefaultCols, DefaultRows)
    /\ exitCallback = "webserver"
    /\ outputBuffer = <<>>
    /\ produced = <<>>
    /\ NoClients

\* vortex-tunnel.ts once its startTunnel has resolved: the gateway socket is open
\* and no browser connection has been announced
VortexIdle ==
    /\ tunnelWs = "open"
    /\ websocketConnections = {}
    /\ localWs = [id \in VortexConnIds |-> "none"]
    /\ gatewayPhase = [id \in VortexConnIds |-> "idle"]
    /\ delivered = [id \in VortexConnIds |-> <<>>]
    /\ forwarded = [id \in VortexConnIds |-> <<>>]
    /\ toGateway = <<>>

\* the page once its terminal socket is open: new TerminalASR()
BrowserIdle ==
    /\ terminalWs = "open"
    /\ isRecording = FALSE
    /\ asrSessionActive = FALSE
    /\ sessionReady = FALSE
    /\ sendInterval = FALSE
    /\ audioBuffer = <<>>
    /\ pendingAudioBuffer = <<>>
    /\ browserSent = <<>>
    /\ captured = 0
    /\ startedAt = 0
    /\ readyCount = 0

\* startTunnel has not been called
TunnelIdle ==
    /\ VortexIdle
    /\ BrowserIdle
    /\ tunnelProcess = FALSE
    /\ tunnelChild = "none"
    /\ urlFound = FALSE
    /\ tunnelTimer = FALSE
    /\ tunnelPromise = [state |-> "pending", value |-> ""]
    /\ tunnelUrl = ""
    /\ firstUrl = ""

\* startTunnel has resolved with the URL the child printed
TunnelRunning ==
    /\ VortexIdle
    /\ BrowserIdle
    /\ tunnelProcess = TRUE
    /\ tunnelChild = "running"
    /\ urlFound = TRUE
    /\ tunnelTimer = FALSE
    /\ \E u \in {"u1"} :
          /\ tunnelPromise = [state |-> "resolved", value |-> u]
          /\ tunnelUrl = u
          /\ firstUrl = u

\* the relay once the server listens and the tunnel is up: spawnPTY comes next
Init ==
    /\ relayUp = TRUE
    /\ phase = "spawn"
    /\ TunnelRunning
    /\ ModuleState

\* the server listens and startSession is about to call startTunnel
InitTunnel ==
    /\ relayUp = TRUE
    /\ phase = "tunnel"
    /\ TunnelIdle
    /\ ModuleState

\* the process at the head of startSession: nothing is bound yet
InitStartup ==
    /\ relayUp = FALSE
    /\ phase = "binding"
    /\ TunnelIdle
    /\ ModuleState

(***************************************************************************)
(* The state of a client's ASR session, read off the fields the handlers   *)
(* test: the asrWs handle, the socket's readyState, sessionReady, and      *)
(* whether asr_stop has sent stop_asr on the socket (stoppedIn).           *)
(***************************************************************************)
AsrStateOf(info, conns, c) ==
    LET k == info[c].asrWs IN
    IF k = 0 THEN "Closed"
    ELSE IF conns[k].stoppedIn # "" THEN "Closing"
    ELSE IF conns[k].state = "open" /\ info[c].sessionReady THEN "Ready"
    ELSE "Connecting"

AsrState(c) == AsrStateOf(clientInfo, asrConn, c)

\* history: the handler that runs, its client, the handle it found, the state
\* it found, and (for an input message) the data it carried
Op(op, c, k) == [op |-> op, c |-> c, k |-> k,
                 st |-> IF c = 0 THEN "Closed" ELSE AsrState(c), d |-> "", pin |-> "",
                 resp |-> NoResponse]

(***************************************************************************)
(* startSession: spawnPTY, then onPTYExit(cleanup) in the same turn of the *)
(* event loop; the second registration replaces the web server's callback. *)
(***************************************************************************)
SpawnPTY ==
    /\ relayUp /\ ~ptyProcess /\ exitCallback = "webserver" /\ phase = "spawn"
    /\ \E ls \in LocalSizes :
          /\ localSize' = ls
          /\ ptySize' = ls
    /\ ptyProcess' = TRUE
    /\ exitCallback' = "session"
    /\ lastOp' = Op("spawn", 0, 0)
    /\ UNCHANGED <<relayUp, connectedClients, clientInfo, wsState, outputBuffer,
                   clientIdCounter, wire, ptyWrites, produced, connectAt, closingAt>>
    /\ UNCHANGED asrVars
    /\ UNCHANGED authVars
    /\ phase' = "started"
    /\ UNCHANGED exitStatus
    /\ UNCHANGED extVars

\* wss.on('connection')
Connect ==
    /\ relayUp /\ clientIdCounter < MaxClients
    /\ \E ip \in IPs :
       LET c == clientIdCounter + 1 IN
          /\ clientIdCounter' = c
          /\ clientInfo' = [clientInfo EXCEPT ![c] =
                               [InitClientInfo EXCEPT !.authorized = Authorized(ip)]]
          /\ connectedClients' = Append(connectedClients, c)
          /\ wsState' = [wsState EXCEPT ![c] = "open"]
          /\ wire' = wire \o historyReplay(c)
          /\ connectAt' = [connectAt EXCEPT ![c] = Len(produced)]
          /\ lastOp' = Op("connect", c, 0)
    /\ UNCHANGED <<relayUp, outputBuffer, ptyWrites, produced, closingAt>>
    /\ UNCHANGED <<ptyProcess, ptySize, localSize, exitCallback>>
    /\ UNCHANGED asrVars
    /\ UNCHANGED authVars
    /\ UNCHANGED startVars
    /\ UNCHANGED extVars

\* the peer's close frame arrived: readyState is CLOSING until 'close' is emitted
ClientClosing(c) ==
    /\ relayUp /\ wsState[c] = "open"
    /\ wsState' = [wsState EXCEPT ![c] = "closing"]
    /\ closingAt' = [closingAt EXCEPT ![c] = Len(produced)]
    /\ lastOp' = Op("closing", c, 0)
    /\ UNCHANGED <<relayUp, connectedClients, clientInfo, outputBuffer, clientIdCounter,
                   wire, produced, connectAt>>
    /\ UNCHANGED ptyVars
    /\ UNCHANGED asrVars
    /\ UNCHANGED authVars
    /\ UNCHANGED startVars
    /\ UNCHANGED extVars

\* ws.on('close')
Disconnect(c) ==
    /\ relayUp /\ wsState[c] \in {"open", "closing"}
    /\ wsState' = [wsState EXCEPT ![c] = "closed"]
    /\ closingAt' = IF wsState[c] = "open"
                    THEN [closingAt EXCEPT ![c] = Len(produced)] ELSE closingAt
    /\ IF Registered(c)
       THEN LET k == clientInfo[c].asrWs
                info == [clientInfo EXCEPT ![c].asrWs = 0]
                clients == Filter(connectedClients, c)
            IN  /\ asrConn' = closeAsrOnDisconnect(asrConn, k)
                /\ clientInfo' = info
                /\ connectedClients' = clients
                /\ ptySize' = applyMinSize(clients, info)
       ELSE UNCHANGED <<asrConn, clientInfo, connectedClients, ptySize>>
    /\ lastOp' = Op("disconnect", c, clientInfo[c].asrWs)
    /\ UNCHANGED <<relayUp, outputBuffer, clientIdCounter, wire, produced, connectAt,
                   ptyProcess, localSize, exitCallback, ptyWrites, timers, backendMsgs,
                   claudeReqs>>
    /\ UNCHANGED authVars
    /\ UNCHANGED startVars
    /\ UNCHANGED extVars

\* ws.on('message'): {type: 'input', data}
Input(c, d) ==
    /\ relayUp /\ wsState[c] = "open" /\ Len(ptyWrites) < MaxWrites
    /\ ptyWrites' = IF d # "" THEN writeToPTY(d) ELSE ptyWrites
    /\ lastOp' = [Op("input", c, 0) EXCEPT !.d = d]
    /\ UNCHANGED <<relayUp, connectedClients, clientInfo, wsState, outputBuffer,
                   clientIdCounter, wire, produced, connectAt, closingAt,
                   ptyProcess, ptySize, localSize, exitCallback>>
    /\ UNCHANGED asrVars
    /\ UNCHANGED authVars
    /\ UNCHANGED startVars
    /\ UNCHANGED extVars

\* JSON.parse(data.toString()) throws on text that is not JSON, and msg.type
\* throws on null; on a number it is undefined, and no branch matches
handlerThrows(m) == m \in {"invalid_json", "null"}

\* a faulty handler: the exception leaves the async handler uncaught
messageOutcomeNoCatch(m) == IF handlerThrows(m) THEN "uncaught" ELSE "ignored"

\* ws.on('message'): the try / catch around the whole handler
messageOutcome(m) == IF handlerThrows(m) THEN "caught" ELSE "ignored"

\* ws.on('message') with a message that is not JSON, not an object, or of
\* unknown type
BadMessage(c, m) ==
    /\ relayUp /\ wsState[c] = "open"
    /\ relayUp' = (messageOutcome(m) # "uncaught")
    /\ lastOp' = [Op("bad_message", c, clientInfo[c].asrWs) EXCEPT !.d = m]
    /\ UNCHANGED <<connectedClients, clientInfo, wsState, outputBuffer, clientIdCounter,
                   wire, produced, connectAt, closingAt>>
    /\ UNCHANGED ptyVars
    /\ UNCHANGED asrVars
    /\ UNCHANGED authVars
    /\ UNCHANGED startVars
    /\ UNCHANGED extVars

\* ws.on('message'): {type: 'resize', cols, rows}
Resize(c, cols, rows) ==
    /\ relayUp /\ wsState[c] = "open"
    /\ IF cols # 0 /\ rows # 0
       THEN LET info == IF Registered(c)
                        THEN [clientInfo EXCEPT ![c].cols = cols, ![c].rows = rows,
                                                 ![c].reported = TRUE]
                        ELSE clientInfo
            IN  /\ clientInfo' = info
                /\ ptySize' = applyMinSize(connectedClients, info)
                /\ lastOp' = Op("resize", c, 0)
       ELSE /\ UNCHANGED <<clientInfo, ptySize>>
            /\ lastOp' = Op("dropped", c, 0)
    /\ UNCHANGED <<relayUp, connectedClients, wsState, outputBuffer, clientIdCounter,
                   wire, produced, connectAt, closingAt,
                   ptyProcess, localSize, exitCallback, ptyWrites>>
    /\ UNCHANGED asrVars
    /\ UNCHANGED authVars
    /\ UNCHANGED startVars
    /\ UNCHANGED extVars

\* process.stdout.on('resize') in pty.ts
LocalResize(ls) ==
    /\ relayUp /\ exitCallback = "session" /\ ls # localSize
    /\ localSize' = ls
    /\ ptySize' = relayApplyMinSize
    /\ lastOp' = Op("localresize", 0, 0)
    /\ UNCHANGED <<relayUp, connectedClients, clientInfo, wsState, outputBuffer,
                   clientIdCounter, wire, produced, connectAt, closingAt,
                   ptyProcess, exitCallback, ptyWrites>>
    /\ UNCHANGED asrVars
    /\ UNCHANGED authVars
    /\ UNCHANGED startVars
    /\ UNCHANGED extVars

\* ptyProcess.onData -> dataCallback: the callback of onPTYData in web-server.ts
PTYData(d) ==
    /\ relayUp /\ ptyProcess
    /\ produced' = Append(produced, d)
    /\ outputBuffer' = pushOutput(outputBuffer, d)
    /\ wire' = wire \o Broadcast(connectedClients, "output", <<d>>, 0)
    /\ lastOp' = Op("data", 0, 0)
    /\ UNCHANGED <<relayUp, connectedClients, clientInfo, wsState, clientIdCounter,
                   connectAt, closingAt>>
    /\ UNCHANGED ptyVars
    /\ UNCHANGED asrVars
    /\ UNCHANGED authVars
    /\ UNCHANGED startVars
    /\ UNCHANGED extVars

\* a faulty exit: every path ends the process with status 0
exitCodeZero(cause) == 0

\* process.exit(0) in cleanup, process.exit(1) on the failure paths
exitCodeOf(cause) == IF cause = "cleanup" THEN 0 ELSE 1

\* stopWebServer(): every client socket is closed, the registry and buffer cleared
stopWebServerSockets == [c \in ClientIds |->
                            IF wsState[c] = "open" THEN "closing" ELSE wsState[c]]

\* ptyProcess.onExit in pty.ts, running whatever callback the slot holds
PTYExit(code) ==
    /\ relayUp /\ ptyProcess
    /\ ptyProcess' = FALSE
    /\ IF exitCallback = "webserver"
       THEN /\ wire' = wire \o Broadcast(connectedClients, "exit", <<>>, code)
            /\ UNCHANGED <<relayUp, connectedClients, wsState, outputBuffer, clientIdCounter>>
       ELSE \* cleanup(): killPTY, stopWebServer, stopTunnel, process.exit(0)
            /\ wsState' = stopWebServerSockets
            /\ connectedClients' = <<>>
            /\ outputBuffer' = <<>>
            /\ clientIdCounter' = 0
            /\ relayUp' = FALSE
            /\ UNCHANGED wire
    /\ lastOp' = [Op("exit", 0, 0) EXCEPT !.k = code]
    /\ closingAt' = IF exitCallback = "webserver" THEN closingAt
                    ELSE [c \in ClientIds |->
                             IF wsState[c] = "open" THEN Len(produced) ELSE closingAt[c]]
    /\ UNCHANGED <<clientInfo, produced, connectAt,
                   ptySize, localSize, exitCallback, ptyWrites>>
    /\ UNCHANGED asrVars
    /\ UNCHANGED authVars
    /\ IF exitCallback = "webserver"
       THEN UNCHANGED startVars
       ELSE phase' = "exited" /\ exitStatus' = exitCodeOf("cleanup")
    /\ UNCHANGED extVars

\* process.on('SIGINT' / 'SIGTERM', cleanup), registered by startSession after
\* the spawn: killPTY, stopWebServer, stopTunnel, process.exit(0)
Signal ==
    /\ relayUp /\ exitCallback = "session"
    /\ ptyProcess' = FALSE
    /\ wsState' = stopWebServerSockets
    /\ connectedClients' = <<>>
    /\ outputBuffer' = <<>>
    /\ clientIdCounter' = 0
    /\ relayUp' = FALSE
    /\ closingAt' = [c \in ClientIds |->
                        IF wsState[c] = "open" THEN Len(produced) ELSE closingAt[c]]
    /\ lastOp' = Op("signal", 0, 0)
    /\ UNCHANGED <<clientInfo, wire, produced, connectAt,
                   ptySize, localSize, exitCallback, ptyWrites>>
    /\ UNCHANGED asrVars
    /\ UNCHANGED authVars
    /\ phase' = "exited"
    /\ exitStatus' = exitCodeOf("cleanup")
    /\ UNCHANGED extVars

(***************************************************************************)
(* web-server.ts: the ASR bridge.  A backend socket k is "connecting",     *)
(* "open", "closing" (close() called on an open socket, or a socket error),*)
(* "aborted" (close() called while connecting) or "closed" ('close' has    *)
(* been emitted).  send() on a socket throws while it is connecting and is *)
(* silently dropped once it is closing or closed; nothing catches an       *)
(* exception thrown in a backend socket's event handler, so it ends the    *)
(* process.                                                                *)
(***************************************************************************)
SendTo(c, type, data) == IF wsState[c] = "open" THEN <<Msg(c, type, data, 0)>> ELSE <<>>

UsedConns == {k \in ConnIds : asrConn[k].state # "unused"}

FreshConn == CHOOSE k \in ConnIds \ UsedConns : \A j \in ConnIds \ UsedConns : k <= j

BackendSend(conns, k, type, from) ==
    IF conns[k].state = "open"
    THEN [conns EXCEPT ![k].sent = Append(@, [type |-> type, from |-> from])]
    ELSE conns

\* ws.on('message'): {type: 'asr_start'}
AsrStart(c, ctx) ==
    /\ relayUp /\ wsState[c] = "open" /\ UsedConns # ConnIds
    /\ LET k == FreshConn IN
          /\ asrConn' = [asrConn EXCEPT ![k] = [state |-> "connecting", owner |-> c,
                                               sent |-> <<>>, confirmed |-> FALSE,
                                               stoppedIn |-> "", context |-> ctx]]
          /\ clientInfo' = [clientInfo EXCEPT ![c].asrWs = k, ![c].sessionReady = FALSE,
                                              ![c].terminalContext = ctx]
    /\ lastOp' = Op("asr_start", c, clientInfo[c].asrWs)
    /\ UNCHANGED <<relayUp, connectedClients, wsState, clientIdCounter, wire,
                   timers, backendMsgs>>
    /\ UNCHANGED ptyVars
    /\ UNCHANGED termVars
    /\ UNCHANGED claudeReqs
    /\ UNCHANGED authVars
    /\ UNCHANGED startVars
    /\ UNCHANGED extVars

\* asrWs.on('open'): context_update follows when clientInfo.terminalContext is set
sendContext(conns, k, ctx, from) ==
    IF ctx # "" THEN BackendSend(conns, k, "context_update", from) ELSE conns

\* asrWs.on('open') of backend socket k: start_asr goes to clientInfo.asrWs
BackendOpen(k) ==
    /\ relayUp /\ asrConn[k].state = "connecting"
    /\ LET c == asrConn[k].owner
           target == clientInfo[c].asrWs
           opened == [asrConn EXCEPT ![k].state = "open"]
       IN  /\ IF target = 0 \/ opened[target].state = "connecting"
              THEN /\ relayUp' = FALSE
                   /\ asrConn' = opened
              ELSE /\ relayUp' = relayUp
                   /\ asrConn' = sendContext(BackendSend(opened, target, "start_asr", k),
                                             target, clientInfo[c].terminalContext, k)
           /\ lastOp' = Op("backend_open", c, k)
    /\ UNCHANGED <<connectedClients, clientInfo, wsState, clientIdCounter, wire,
                   timers, backendMsgs>>
    /\ UNCHANGED ptyVars
    /\ UNCHANGED termVars
    /\ UNCHANGED claudeReqs
    /\ UNCHANGED authVars
    /\ UNCHANGED startVars
    /\ UNCHANGED extVars

\* a parsed backend message: its type and the fields the handler reads
Resp(type, text, original, corrected, message) ==
    [type |-> type, text |-> text, original |-> original, corrected |-> corrected,
     message |-> message]

\* the backend message of a kind with fixed field values
Response(kind) == Resp(kind, "t", "o", "k", "m")

\* {error: message} as the data of an asr_response
errorData(message) == << <<"error", message>> >>

\* a faulty translation: the correction's two texts change places
translateSwapped(response) ==
    IF response.type = "correction_result"
    THEN << <<"type", "correction_result">>, <<"original", response.corrected>>,
            <<"corrected", response.original>> >>
    ELSE errorData(response.message)

\* the data of the asr_response that asrWs.on('message') sends for a backend
\* message, as a list of field and value pairs
translate(response) ==
    CASE response.type = "asr_connected" ->
             << <<"type", "asr_ready">> >>
      [] response.type = "partial_result" ->
             << <<"type", "partial">>, <<"text", response.text>>,
                <<"transcript", response.text>> >>
      [] response.type = "final_result" ->
             << <<"type", "conversation.item.input_audio_transcription.completed">>,
                <<"transcript", response.text>>, <<"text", response.text>> >>
      [] response.type = "correction_result" ->
             << <<"type", "correction_result">>, <<"original", response.original>>,
                <<"corrected", response.corrected>> >>
      [] response.type = "error" ->
             errorData(response.message)
      [] OTHER ->
             << <<"type", response.type>>, <<"text", response.text>>,
                <<"original", response.original>>, <<"corrected", response.corrected>>,
                <<"message", response.message>> >>

BackendKinds == {"asr_connected", "asr_disconnected", "partial_result", "final_result",
                 "correction_result", "error", "malformed"}

\* the correction requests sent on backend socket k that the backend has not
\* answered yet; it answers them in the order it received them
PendingOn(k) == {i \in 1..Len(claudeReqs) : /\ claudeReqs[i].route = "asr"
                                            /\ claudeReqs[i].k = k
                                            /\ claudeReqs[i].answer = ""}

Pending(k) == CHOOSE i \in PendingOn(k) : \A j \in PendingOn(k) : i <= j

\* asrWs.on('message') of backend socket k.  The backend confirms readiness
\* only on a connection on which it has received start_asr, and returns a
\* correction only for a correct_text it has received.  JSON.parse is
\* not guarded: a message that is not JSON throws out of the handler.
BackendMessage(k, response) ==
    LET kind == response.type IN
    /\ relayUp /\ asrConn[k].state \in {"open", "closing"}
    /\ backendMsgs < MaxBackendMsgs
    /\ kind = "asr_connected" =>
          \E i \in 1..Len(asrConn[k].sent) : asrConn[k].sent[i].type = "start_asr"
    /\ kind = "correction_result" => PendingOn(k) # {}
    /\ backendMsgs' = backendMsgs + 1
    /\ LET c == asrConn[k].owner IN
          /\ CASE kind = "asr_connected" ->
                     /\ clientInfo' = [clientInfo EXCEPT ![c].sessionReady = TRUE]
                     /\ asrConn' = [asrConn EXCEPT ![k].confirmed = TRUE]
                     /\ wire' = wire \o SendTo(c, "asr_response", translate(response))
               [] kind = "asr_disconnected" ->
                     /\ clientInfo' = [clientInfo EXCEPT ![c].sessionReady = FALSE]
                     /\ UNCHANGED <<asrConn, wire>>
               [] kind \in {"connected", "pong", "malformed"} ->
                     UNCHANGED <<asrConn, clientInfo, wire>>
               [] OTHER ->
                     /\ wire' = wire \o SendTo(c, "asr_response", translate(response))
                     /\ UNCHANGED <<asrConn, clientInfo>>
          /\ claudeReqs' = IF kind = "correction_result"
                           THEN [claudeReqs EXCEPT ![Pending(k)].answer = kind]
                           ELSE claudeReqs
          /\ relayUp' = (kind # "malformed")
          /\ lastOp' = [Op("backend_message", c, k) EXCEPT !.op = kind, !.resp = response]
    /\ UNCHANGED <<connectedClients, wsState, clientIdCounter, timers>>
    /\ UNCHANGED ptyVars
    /\ UNCHANGED termVars
    /\ UNCHANGED authVars
    /\ UNCHANGED startVars
    /\ UNCHANGED extVars

\* asrWs.on('error') of backend socket k; the socket's 'close' follows
BackendError(k) ==
    /\ relayUp /\ asrConn[k].state \in {"connecting", "open"}
    /\ LET c == asrConn[k].owner IN
          /\ wire' = wire \o SendTo(c, "asr_response", errorData("Gateway connection error"))
          /\ asrConn' = [asrConn EXCEPT ![k].state = "closing"]
          /\ lastOp' = Op("backend_error", c, k)
    /\ UNCHANGED <<relayUp, connectedClients, clientInfo, wsState, clientIdCounter,
                   timers, backendMsgs>>
    /\ UNCHANGED ptyVars
    /\ UNCHANGED termVars
    /\ UNCHANGED claudeReqs
    /\ UNCHANGED authVars
    /\ UNCHANGED startVars
    /\ UNCHANGED extVars

\* asrWs.on('close') of backend socket k; an aborted handshake emits 'error' first
BackendClose(k) ==
    /\ relayUp /\ asrConn[k].state \in {"open", "closing", "aborted"}
    /\ LET c == asrConn[k].owner IN
          /\ wire' = IF asrConn[k].state = "aborted"
                     THEN wire \o SendTo(c, "asr_response",
                                          errorData("Gateway connection error"))
                     ELSE wire
          /\ asrConn' = [asrConn EXCEPT ![k].state = "closed"]
          /\ clientInfo' = [clientInfo EXCEPT ![c].asrWs = 0, ![c].sessionReady = FALSE]
          /\ lastOp' = Op("backend_close", c, k)
    /\ UNCHANGED <<relayUp, connectedClients, wsState, clientIdCounter, timers, backendMsgs>>
    /\ UNCHANGED ptyVars
    /\ UNCHANGED termVars
    /\ UNCHANGED claudeReqs
    /\ UNCHANGED authVars
    /\ UNCHANGED startVars
    /\ UNCHANGED extVars

\* ws.on('message'): {type: 'asr_audio', audio}
AsrAudio(c) ==
    /\ relayUp /\ wsState[c] = "open"
    /\ backendMsgs < MaxBackendMsgs
    /\ backendMsgs' = backendMsgs + 1
    /\ LET k == clientInfo[c].asrWs IN
          /\ asrConn' = IF k # 0 /\ asrConn[k].state = "open" /\ clientInfo[c].sessionReady
                        THEN BackendSend(asrConn, k, "audio_data", k)
                        ELSE asrConn
          /\ lastOp' = Op("asr_audio", c, k)
    /\ UNCHANGED <<relayUp, connectedClients, clientInfo, wsState, clientIdCounter, wire,
                   timers>>
    /\ UNCHANGED ptyVars
    /\ UNCHANGED termVars
    /\ UNCHANGED claudeReqs
    /\ UNCHANGED authVars
    /\ UNCHANGED startVars
    /\ UNCHANGED extVars

\* ws.on('message'): {type: 'asr_stop'}
AsrStop(c) ==
    /\ relayUp /\ wsState[c] = "open" /\ timers[c] < MaxTimers
    /\ LET k == clientInfo[c].asrWs IN
          /\ IF k = 0 THEN UNCHANGED <<asrConn, timers, clientInfo>>
             ELSE IF asrConn[k].state = "open"
             THEN /\ asrConn' = [BackendSend(asrConn, k, "stop_asr", k)
                                     EXCEPT ![k].stoppedIn = AsrState(c)]
                  /\ timers' = [timers EXCEPT ![c] = @ + 1]
                  /\ UNCHANGED clientInfo
             ELSE /\ clientInfo' = [clientInfo EXCEPT ![c].asrWs = 0]
                  /\ UNCHANGED <<asrConn, timers>>
          /\ lastOp' = Op("asr_stop", c, k)
    /\ UNCHANGED <<relayUp, connectedClients, wsState, clientIdCounter, wire, backendMsgs>>
    /\ UNCHANGED ptyVars
    /\ UNCHANGED termVars
    /\ UNCHANGED claudeReqs
    /\ UNCHANGED authVars
    /\ UNCHANGED startVars
    /\ UNCHANGED extVars

\* the callback of the setTimeout(..., 1000) that asr_stop armed
GraceTimer(c) ==
    /\ relayUp /\ timers[c] > 0
    /\ timers' = [timers EXCEPT ![c] = @ - 1]
    /\ LET k == clientInfo[c].asrWs IN
          /\ IF k # 0
             THEN /\ asrConn' = closeSocket(asrConn, k)
                  /\ clientInfo' = [clientInfo EXCEPT ![c].asrWs = 0]
             ELSE UNCHANGED <<asrConn, clientInfo>>
          /\ lastOp' = Op("grace_timer", c, k)
    /\ UNCHANGED <<relayUp, connectedClients, wsState, clientIdCounter, wire, backendMsgs>>
    /\ UNCHANGED ptyVars
    /\ UNCHANGED termVars
    /\ UNCHANGED claudeReqs
    /\ UNCHANGED authVars
    /\ UNCHANGED startVars
    /\ UNCHANGED extVars

(***************************************************************************)
(* web-server.ts: claude_process.  A request goes out on the client's ASR  *)
(* socket when that is open, and otherwise on a socket of its own          *)
(* (correctionWs), whose handlers close over the request.  A request is    *)
(* known by its position in claudeReqs, which also stands for its          *)
(* transcript.                                                             *)
(***************************************************************************)
SendReply(c, data, i) ==
    IF wsState[c] = "open" THEN <<Msg(c, "claude_response", data, i)>> ELSE <<>>

\* ws.on('message'): {type: 'claude_process', transcript}
ClaudeProcess(c) ==
    /\ relayUp /\ wsState[c] = "open" /\ Len(claudeReqs) < MaxRequests
    /\ LET k == clientInfo[c].asrWs
           i == Len(claudeReqs) + 1
       IN  /\ IF k # 0 /\ asrConn[k].state = "open"
              THEN /\ asrConn' = BackendSend(asrConn, k, "correct_text", i)
                   /\ claudeReqs' = Append(claudeReqs, [c |-> c, route |-> "asr", k |-> k,
                                                        state |-> "routed", answer |-> ""])
              ELSE /\ asrConn' = asrConn
                   /\ claudeReqs' = Append(claudeReqs, [c |-> c, route |-> "short", k |-> 0,
                                                        state |-> "connecting", answer |-> ""])
           /\ lastOp' = Op("claude_process", c, k)
    /\ UNCHANGED <<relayUp, connectedClients, clientInfo, wsState, clientIdCounter, wire,
                   timers, backendMsgs>>
    /\ UNCHANGED ptyVars
    /\ UNCHANGED termVars
    /\ UNCHANGED authVars
    /\ UNCHANGED startVars
    /\ UNCHANGED extVars

\* correctionWs.on('open') of request i: correct_text is sent
CorrOpen(i) ==
    /\ relayUp /\ i \in 1..Len(claudeReqs)
    /\ claudeReqs[i].route = "short" /\ claudeReqs[i].state = "connecting"
    /\ claudeReqs' = [claudeReqs EXCEPT ![i].state = "open"]
    /\ lastOp' = Op("corr_open", claudeReqs[i].c, i)
    /\ UNCHANGED <<relayUp, connectedClients, clientInfo, wsState, clientIdCounter, wire,
                   asrConn, timers, backendMsgs>>
    /\ UNCHANGED ptyVars
    /\ UNCHANGED termVars
    /\ UNCHANGED authVars
    /\ UNCHANGED startVars
    /\ UNCHANGED extVars

CorrKinds == {"correction_result", "error", "malformed"}

\* correctionWs.on('message') of request i: only correction_result is acted
\* on; JSON.parse is not guarded
CorrMessage(i, kind) ==
    /\ relayUp /\ i \in 1..Len(claudeReqs)
    /\ claudeReqs[i].route = "short" /\ claudeReqs[i].state = "open"
    /\ IF kind = "correction_result"
       THEN /\ wire' = wire \o SendReply(claudeReqs[i].c, <<"done">>, i)
            /\ claudeReqs' = [claudeReqs EXCEPT ![i].state = "closing", ![i].answer = kind]
       ELSE /\ wire' = wire
            /\ claudeReqs' = IF kind = "error"
                             THEN [claudeReqs EXCEPT ![i].answer = kind]
                             ELSE claudeReqs
    /\ relayUp' = (kind # "malformed")
    /\ lastOp' = [Op("corr_message", claudeReqs[i].c, i) EXCEPT !.d = kind]
    /\ UNCHANGED <<connectedClients, clientInfo, wsState, clientIdCounter,
                   asrConn, timers, backendMsgs>>
    /\ UNCHANGED ptyVars
    /\ UNCHANGED termVars
    /\ UNCHANGED authVars
    /\ UNCHANGED startVars
    /\ UNCHANGED extVars

\* correctionWs.on('error') of request i: the error reply carries the
\* request's transcript as fallback
CorrError(i) ==
    /\ relayUp /\ i \in 1..Len(claudeReqs)
    /\ claudeReqs[i].route = "short" /\ claudeReqs[i].state \in {"connecting", "open"}
    /\ wire' = wire \o SendReply(claudeReqs[i].c, <<"error">>, i)
    /\ claudeReqs' = [claudeReqs EXCEPT ![i].state = "failed"]
    /\ lastOp' = Op("corr_error", claudeReqs[i].c, i)
    /\ UNCHANGED <<relayUp, connectedClients, clientInfo, wsState, clientIdCounter,
                   asrConn, timers, backendMsgs>>
    /\ UNCHANGED ptyVars
    /\ UNCHANGED termVars
    /\ UNCHANGED authVars
    /\ UNCHANGED startVars
    /\ UNCHANGED extVars

\* the socket of request i closes; correctionWs has no 'close' handler
CorrClose(i) ==
    /\ relayUp /\ i \in 1..Len(claudeReqs)
    /\ claudeReqs[i].route = "short" /\ claudeReqs[i].state \in {"open", "closing"}
    /\ claudeReqs' = [claudeReqs EXCEPT ![i].state =
                          IF @ = "closing" THEN "closed" ELSE "dropped"]
    /\ lastOp' = Op("corr_close", claudeReqs[i].c, i)
    /\ UNCHANGED <<relayUp, connectedClients, clientInfo, wsState, clientIdCounter, wire,
                   asrConn, timers, backendMsgs>>
    /\ UNCHANGED ptyVars
    /\ UNCHANGED termVars
    /\ UNCHANGED authVars
    /\ UNCHANGED startVars
    /\ UNCHANGED extVars

\* the backend messages the correction path is explored with
CorrectionBackendKinds == {"asr_connected", "correction_result", "error"}

\* the backend messages the translation is explored with: every case of the
\* switch and one type it does not list
Responses ==
    {Resp(kind, t, "", "", "") : kind \in {"partial_result", "final_result", "vad_event"},
                                 t \in Texts}
    \cup {Resp("correction_result", "", o, k, "") : o \in Texts, k \in Texts}
    \cup {Resp("error", "", "", "", m) : m \in Texts}
    \cup {Resp(kind, "", "", "", "") :
              kind \in {"connected", "asr_connected", "asr_disconnected", "pong"}}

\* a session of one client and the messages its backend sends
NextTranslate ==
    \/ (clientIdCounter + 1 \in AsrClientIds /\ Connect)
    \/ \E c \in ClientIds : ClientClosing(c)
    \/ \E c \in ClientIds : AsrStart(c, "")
    \/ \E k \in ConnIds : BackendOpen(k)
    \/ \E c \in ClientIds : ClaudeProcess(c)
    \/ \E k \in ConnIds, response \in Responses : BackendMessage(k, response)

\* the handshake of a backend connection and what the client sends meanwhile
NextHandshake ==
    \/ (clientIdCounter + 1 \in AsrClientIds /\ Connect)
    \/ \E c \in ClientIds, ctx \in Contexts : AsrStart(c, ctx)
    \/ \E c \in ClientIds : AsrAudio(c)
    \/ \E c \in ClientIds : AsrStop(c)
    \/ \E c \in ClientIds : GraceTimer(c)
    \/ \E k \in ConnIds : BackendOpen(k)
    \/ \E k \in ConnIds : BackendMessage(k, Response("asr_connected"))
    \/ \E k \in ConnIds : BackendClose(k)

StartProduced == MAX_BUFFER_SIZE - 2

\* the relay after the child has produced StartProduced chunks with no client
\* connected: none of these pushes exceeded MAX_BUFFER_SIZE, so the buffer
\* holds them all.  A chunk is known by its number in production order.
InitBuffer ==
    /\ relayUp = TRUE
    /\ phase = "started"
    /\ TunnelRunning
    /\ ptyProcess = TRUE
    /\ exitCallback = "session"
    /\ \E ls \in LocalSizes : localSize = ls /\ ptySize = ls
    /\ produced = [i \in 1..StartProduced |-> i]
    /\ outputBuffer = [i \in 1..StartProduced |-> i]
    /\ NoClients

\* a long run of output before anyone connects
NextBuffer ==
    \/ (/\ Len(produced) < MaxProduced /\ connectedClients = <<>>
        /\ PTYData(Len(produced) + 1))
    \/ (Len(produced) > MAX_BUFFER_SIZE /\ Connect)

\* ---- startup ----

\* httpServer.listen succeeds: startWebServer resolves, the tunnel is next
Listen ==
    /\ phase = "binding"
    /\ phase' = "tunnel"
    /\ relayUp' = TRUE
    /\ lastOp' = Op("listen", 0, 0)
    /\ UNCHANGED <<connectedClients, clientInfo, wsState, clientIdCounter, wire, exitStatus>>
    /\ UNCHANGED <<ptyVars, asrVars, termVars, authVars>>
    /\ UNCHANGED extVars

\* a startup failure: the process ends with the status of that path
abort(cause) ==
    /\ phase' = "exited"
    /\ exitStatus' = exitCodeOf(cause)
    /\ relayUp' = FALSE
    /\ lastOp' = Op(cause, 0, 0)

\* the port cannot be bound: httpServer 'error', startWebServer rejects
ListenError ==
    /\ phase = "binding"
    /\ abort("listen_error")
    /\ UNCHANGED <<connectedClients, clientInfo, wsState, clientIdCounter, wire>>
    /\ UNCHANGED <<ptyVars, asrVars, termVars, authVars>>
    /\ UNCHANGED extVars

\* ---- cloudflare-tunnel.ts: startTunnel ----

\* Promise semantics: resolve and reject act on a pending promise only
resolvePromise(p, v) == IF p.state = "pending" THEN [state |-> "resolved", value |-> v] ELSE p

rejectPromise(p, e) == IF p.state = "pending" THEN [state |-> "rejected", value |-> e] ELSE p

\* a faulty match: every URL printed is taken, not only the first
takesUrlAlways(match, found) == match # ""

\* the data handlers: if (urlMatch && !urlFound)
takesUrl(match, found) == match # "" /\ ~found

\* the relay's own state, which the tunnel's handlers do not touch
RelayUnchanged ==
    /\ UNCHANGED <<relayUp, connectedClients, clientInfo, wsState, clientIdCounter, wire>>
    /\ UNCHANGED <<ptyVars, asrVars, termVars, authVars, startVars>>
    /\ UNCHANGED sideVars

\* which cloudflared closes with 0: startTunnelProcess spawns the child and
\* arms the timeout
StartTunnelProcess ==
    /\ phase = "tunnel" /\ tunnelChild = "none" /\ tunnelPromise.state = "pending"
    /\ tunnelProcess' = TRUE
    /\ tunnelChild' = "running"
    /\ urlFound' = FALSE
    /\ tunnelTimer' = TRUE
    /\ lastOp' = Op("tunnel_start", 0, 0)
    /\ UNCHANGED <<tunnelPromise, tunnelUrl, firstUrl>>
    /\ RelayUnchanged

\* which cloudflared closes with a non-zero code: cloudflared is not installed
WhichFails ==
    /\ phase = "tunnel" /\ tunnelChild = "none" /\ tunnelPromise.state = "pending"
    /\ tunnelPromise' = rejectPromise(tunnelPromise, "not_installed")
    /\ lastOp' = Op("which_failed", 0, 0)
    /\ UNCHANGED <<tunnelProcess, tunnelChild, urlFound, tunnelTimer, tunnelUrl, firstUrl>>
    /\ RelayUnchanged

\* a 'data' event of the child's stderr or stdout; match is the URL the
\* regular expression finds in it, "" when it finds none
TunnelData(match) ==
    /\ phase # "exited" /\ tunnelChild \in {"running", "killed"}
    /\ firstUrl' = IF firstUrl = "" THEN match ELSE firstUrl
    /\ IF takesUrl(match, urlFound)
       THEN /\ urlFound' = TRUE
            /\ tunnelTimer' = FALSE
            /\ tunnelUrl' = match
            /\ tunnelPromise' = resolvePromise(tunnelPromise, match)
       ELSE UNCHANGED <<urlFound, tunnelTimer, tunnelUrl, tunnelPromise>>
    /\ lastOp' = [Op("tunnel_data", 0, 0) EXCEPT !.d = match]
    /\ UNCHANGED <<tunnelProcess, tunnelChild>>
    /\ RelayUnchanged

\* tunnelProcess.on('error')
TunnelChildError ==
    /\ phase # "exited" /\ tunnelChild \in {"running", "killed"}
    /\ tunnelTimer' = FALSE
    /\ tunnelPromise' = rejectPromise(tunnelPromise, "error")
    /\ lastOp' = Op("tunnel_error", 0, 0)
    /\ UNCHANGED <<tunnelProcess, tunnelChild, urlFound, tunnelUrl, firstUrl>>
    /\ RelayUnchanged

\* tunnelProcess.on('close')
TunnelChildClose ==
    /\ phase # "exited" /\ tunnelChild \in {"running", "killed"}
    /\ tunnelChild' = "closed"
    /\ IF ~urlFound
       THEN /\ tunnelTimer' = FALSE
            /\ tunnelPromise' = rejectPromise(tunnelPromise, "exited")
       ELSE UNCHANGED <<tunnelTimer, tunnelPromise>>
    /\ tunnelProcess' = FALSE
    /\ tunnelUrl' = ""
    /\ lastOp' = Op("tunnel_close", 0, 0)
    /\ UNCHANGED <<urlFound, firstUrl>>
    /\ RelayUnchanged

\* the callback of the 30 second timeout: reject, then stopTunnel()
TunnelTimer ==
    /\ phase # "exited" /\ tunnelTimer
    /\ tunnelTimer' = FALSE
    /\ IF ~urlFound
       THEN /\ tunnelPromise' = rejectPromise(tunnelPromise, "timeout")
            /\ IF tunnelProcess
               THEN /\ tunnelChild' = "killed"
                    /\ tunnelProcess' = FALSE
                    /\ tunnelUrl' = ""
               ELSE UNCHANGED <<tunnelChild, tunnelProcess, tunnelUrl>>
       ELSE UNCHANGED <<tunnelPromise, tunnelChild, tunnelProcess, tunnelUrl>>
    /\ lastOp' = Op("tunnel_timer", 0, 0)
    /\ UNCHANGED <<urlFound, firstUrl>>
    /\ RelayUnchanged

\* startTunnel resolves
TunnelUp ==
    /\ phase = "tunnel" /\ tunnelPromise.state = "resolved"
    /\ phase' = "spawn"
    /\ lastOp' = Op("tunnel", 0, 0)
    /\ UNCHANGED <<relayUp, connectedClients, clientInfo, wsState, clientIdCounter, wire,
                   exitStatus>>
    /\ UNCHANGED <<ptyVars, asrVars, termVars, authVars>>
    /\ UNCHANGED extVars

\* startTunnel rejects: process.exit(1) in the inner catch
TunnelFail ==
    /\ phase = "tunnel" /\ tunnelPromise.state = "rejected"
    /\ abort("tunnel_failed")
    /\ UNCHANGED <<connectedClients, clientInfo, wsState, clientIdCounter, wire>>
    /\ UNCHANGED <<ptyVars, asrVars, termVars, authVars>>
    /\ UNCHANGED extVars

\* pty.spawn throws: the outer catch runs stopWebServer, stopTunnel, process.exit(1)
SpawnFail ==
    /\ phase = "spawn" /\ ~ptyProcess
    /\ abort("spawn_failed")
    /\ wsState' = stopWebServerSockets
    /\ connectedClients' = <<>>
    /\ outputBuffer' = <<>>
    /\ clientIdCounter' = 0
    /\ closingAt' = [c \in ClientIds |->
                        IF wsState[c] = "open" THEN Len(produced) ELSE closingAt[c]]
    /\ UNCHANGED <<clientInfo, wire, produced, connectAt>>
    /\ UNCHANGED <<ptyVars, asrVars, authVars>>
    /\ UNCHANGED extVars

(***************************************************************************)
(* vortex-tunnel.ts: the browser connections the gateway announces, each   *)
(* relayed to a socket of its own to the local server.                     *)
(***************************************************************************)
\* startTunnel(port = 4020): the port of the local server
localPort == 4020

\* sendToGateway(msg): the messages the gateway has been sent afterwards
sendToGateway(sent, type, id) ==
    IF tunnelWs = "open" THEN Append(sent, [type |-> type, conn_id |-> id]) ELSE sent

\* localWs.close(): the readyState of a local socket afterwards
closeLocal(state) == IF state \in {"connecting", "open"} THEN "closing" ELSE state

\* everything outside vortex-tunnel.ts
VortexFrame ==
    /\ UNCHANGED <<relayUp, connectedClients, clientInfo, wsState, clientIdCounter, wire>>
    /\ UNCHANGED <<ptyVars, asrVars, termVars, authVars, startVars>>
    /\ UNCHANGED tunVars
    /\ UNCHANGED browserVars

\* handleGatewayMessage: {type: 'websocket_connect', conn_id}
handleWebSocketConnect(connId) ==
    /\ tunnelWs = "open" /\ gatewayPhase[connId] = "idle"
    /\ gatewayPhase' = [gatewayPhase EXCEPT ![connId] = "connected"]
    /\ IF localPort = 0
       THEN /\ toGateway' = sendToGateway(toGateway, "websocket_close", connId)
            /\ UNCHANGED localWs
       ELSE /\ localWs' = [localWs EXCEPT ![connId] = "connecting"]
            /\ UNCHANGED toGateway
    /\ lastOp' = Op("websocket_connect", connId, 0)
    /\ UNCHANGED <<tunnelWs, websocketConnections, delivered, forwarded>>
    /\ VortexFrame

\* localWs.on('open')
LocalOpen(connId) ==
    /\ localWs[connId] = "connecting"
    /\ localWs' = [localWs EXCEPT ![connId] = "open"]
    /\ websocketConnections' = websocketConnections \cup {connId}
    /\ lastOp' = Op("local_open", connId, 0)
    /\ UNCHANGED <<tunnelWs, gatewayPhase, delivered, forwarded, toGateway>>
    /\ VortexFrame

\* localWs.on('error') and the 'close' that follows it: the local server refused
\* the connection
LocalError(connId) ==
    /\ localWs[connId] = "connecting"
    /\ localWs' = [localWs EXCEPT ![connId] = "closed"]
    /\ websocketConnections' = websocketConnections \ {connId}
    /\ toGateway' = sendToGateway(sendToGateway(toGateway, "websocket_close", connId),
                                  "websocket_close", connId)
    /\ lastOp' = Op("local_error", connId, 0)
    /\ UNCHANGED <<tunnelWs, gatewayPhase, delivered, forwarded>>
    /\ VortexFrame

\* localWs.on('close'): the local server closed the socket, or the closing
\* handshake that close() began has ended
LocalClose(connId) ==
    /\ localWs[connId] \in {"open", "closing"}
    /\ localWs' = [localWs EXCEPT ![connId] = "closed"]
    /\ websocketConnections' = websocketConnections \ {connId}
    /\ toGateway' = sendToGateway(toGateway, "websocket_close", connId)
    /\ lastOp' = Op("local_close", connId, 0)
    /\ UNCHANGED <<tunnelWs, gatewayPhase, delivered, forwarded>>
    /\ VortexFrame

\* localWs.on('message'): the local server's data goes to the gateway
LocalMessage(connId) ==
    /\ localWs[connId] = "open" /\ Len(toGateway) < MaxLocalMsgs
    /\ toGateway' = sendToGateway(toGateway, "websocket_data", connId)
    /\ lastOp' = Op("local_message", connId, 0)
    /\ UNCHANGED <<tunnelWs, websocketConnections, localWs, gatewayPhase, delivered,
                   forwarded>>
    /\ VortexFrame

\* handleWebSocketMessage(connId, data): what the local socket of connId has been
\* sent afterwards
forwardMessage(connId, data) ==
    IF connId \in websocketConnections /\ localWs[connId] = "open"
    THEN Append(forwarded[connId], data)
    ELSE forwarded[connId]

\* handleGatewayMessage: {type: 'websocket_message', conn_id, data}
handleWebSocketMessage(connId, data) ==
    /\ tunnelWs = "open" /\ gatewayPhase[connId] = "connected"
    /\ Len(delivered[connId]) < MaxVortexMsgs
    /\ delivered' = [delivered EXCEPT ![connId] = Append(@, data)]
    /\ forwarded' = [forwarded EXCEPT ![connId] = forwardMessage(connId, data)]
    /\ lastOp' = Op("websocket_message", connId, data)
    /\ UNCHANGED <<tunnelWs, websocketConnections, localWs, gatewayPhase, toGateway>>
    /\ VortexFrame

\* handleGatewayMessage: {type: 'websocket_disconnect', conn_id}
handleWebSocketDisconnect(connId) ==
    /\ tunnelWs = "open" /\ gatewayPhase[connId] = "connected"
    /\ gatewayPhase' = [gatewayPhase EXCEPT ![connId] = "disconnected"]
    /\ IF connId \in websocketConnections
       THEN /\ localWs' = [localWs EXCEPT ![connId] = closeLocal(@)]
            /\ websocketConnections' = websocketConnections \ {connId}
       ELSE UNCHANGED <<localWs, websocketConnections>>
    /\ lastOp' = Op("websocket_disconnect", connId, 0)
    /\ UNCHANGED <<tunnelWs, delivered, forwarded, toGateway>>
    /\ VortexFrame

\* tunnelWs.on('close'): cleanup() closes the sockets of the map and clears it
VortexTunnelClose ==
    /\ tunnelWs = "open"
    /\ tunnelWs' = "closed"
    /\ localWs' = [id \in VortexConnIds |->
                      IF id \in websocketConnections THEN closeLocal(localWs[id])
                      ELSE localWs[id]]
    /\ websocketConnections' = {}
    /\ lastOp' = Op("vortex_close", 0, 0)
    /\ UNCHANGED <<gatewayPhase, delivered, forwarded, toGateway>>
    /\ VortexFrame

\* the gateway's messages for the browser connections and the events of the
\* local sockets
NextVortex ==
    \/ \E id \in VortexConnIds : handleWebSocketConnect(id)
    \/ \E id \in VortexConnIds : LocalOpen(id)
    \/ \E id \in VortexConnIds : LocalError(id)
    \/ \E id \in VortexConnIds : LocalClose(id)
    \/ \E id \in VortexConnIds : LocalMessage(id)
    \/ \E id \in VortexConnIds : handleWebSocketMessage(id, Len(delivered[id]) + 1)
    \/ \E id \in VortexConnIds : handleWebSocketDisconnect(id)
    \/ VortexTunnelClose

(***************************************************************************)
(* The browser client: TerminalASR, which records audio and sends it on    *)
(* the terminal socket.  A chunk is the number it was captured as, and the *)
(* base64 of the combined buffer is the sequence of the chunks combined.   *)
(***************************************************************************)
\* window.terminalWs.send(msg): the messages the socket has sent afterwards
sendTerminal(sent, msgs) == IF terminalWs = "open" THEN sent \o msgs ELSE sent

AudioMessage(audio) == [type |-> "asr_audio", audio |-> audio]

\* a faulty flush: the pending chunks are sent newest first
sendPendingAudioReversed(pending) ==
    [i \in 1..Len(pending) |-> AudioMessage(pending[Len(pending) + 1 - i])]

\* sendPendingAudio(): the messages it sends, one per pending chunk
sendPendingAudio(pending) == [i \in 1..Len(pending) |-> AudioMessage(pending[i])]

\* everything outside the browser client
BrowserFrame ==
    /\ UNCHANGED <<relayUp, connectedClients, clientInfo, wsState, clientIdCounter, wire>>
    /\ UNCHANGED <<ptyVars, asrVars, termVars, authVars, startVars>>
    /\ UNCHANGED tunVars
    /\ UNCHANGED vortexVars

\* startRecording(...), called by the voice button while no recording runs
startRecording ==
    /\ ~isRecording /\ terminalWs = "open"
    /\ Len(SelectSeq(browserSent, LAMBDA m : m.type = "asr_start")) < MaxStarts
    /\ browserSent' = sendTerminal(browserSent, <<[type |-> "asr_start", audio |-> <<>>]>>)
    /\ isRecording' = TRUE
    /\ asrSessionActive' = TRUE
    /\ sessionReady' = FALSE
    /\ audioBuffer' = <<>>
    /\ pendingAudioBuffer' = <<>>
    /\ sendInterval' = TRUE
    /\ startedAt' = captured
    /\ lastOp' = Op("start_recording", 0, 0)
    /\ UNCHANGED <<terminalWs, captured, readyCount>>
    /\ BrowserFrame

\* processor.onaudioprocess: one more chunk from the microphone
onaudioprocess ==
    /\ sendInterval /\ captured < MaxCaptured
    /\ captured' = captured + 1
    /\ audioBuffer' = IF ~isRecording \/ terminalWs # "open" THEN audioBuffer
                      ELSE Append(audioBuffer, captured + 1)
    /\ lastOp' = Op("audio", 0, captured + 1)
    /\ UNCHANGED <<terminalWs, isRecording, asrSessionActive, sessionReady, sendInterval,
                   pendingAudioBuffer, browserSent, startedAt, readyCount>>
    /\ BrowserFrame

\* the callback of sendInterval, every 100 ms
SendIntervalTick ==
    /\ sendInterval
    /\ IF Len(audioBuffer) > 0 /\ asrSessionActive
       THEN /\ IF sessionReady
               THEN /\ browserSent' = sendTerminal(browserSent, <<AudioMessage(audioBuffer)>>)
                    /\ UNCHANGED pendingAudioBuffer
               ELSE /\ pendingAudioBuffer' = Append(pendingAudioBuffer, audioBuffer)
                    /\ UNCHANGED browserSent
            /\ audioBuffer' = <<>>
       ELSE UNCHANGED <<browserSent, pendingAudioBuffer, audioBuffer>>
    /\ lastOp' = Op("send_interval", 0, Len(audioBuffer))
    /\ UNCHANGED <<terminalWs, isRecording, asrSessionActive, sessionReady, sendInterval,
                   captured, startedAt, readyCount>>
    /\ BrowserFrame

\* handleASRResponse({type: 'asr_ready'}): the server answers each asr_start with
\* at most one
AsrReady ==
    /\ terminalWs = "open"
    /\ readyCount < Len(SelectSeq(browserSent, LAMBDA m : m.type = "asr_start"))
    /\ readyCount' = readyCount + 1
    /\ sessionReady' = TRUE
    /\ browserSent' = sendTerminal(browserSent, sendPendingAudio(pendingAudioBuffer))
    /\ pendingAudioBuffer' = <<>>
    /\ lastOp' = Op("asr_ready", 0, Len(pendingAudioBuffer))
    /\ UNCHANGED <<terminalWs, isRecording, asrSessionActive, sendInterval, audioBuffer,
                   captured, startedAt>>
    /\ BrowserFrame

\* stopRecording()
stopRecording ==
    /\ isRecording
    /\ isRecording' = FALSE
    /\ asrSessionActive' = FALSE
    /\ sessionReady' = FALSE
    /\ pendingAudioBuffer' = <<>>
    /\ sendInterval' = FALSE
    /\ IF Len(audioBuffer) > 0 /\ terminalWs = "open"
       THEN /\ browserSent' = sendTerminal(browserSent,
                                  <<AudioMessage(audioBuffer), [type |-> "asr_stop", audio |-> <<>>]>>)
            /\ audioBuffer' = <<>>
       ELSE /\ browserSent' = sendTerminal(browserSent, <<[type |-> "asr_stop", audio |-> <<>>]>>)
            /\ UNCHANGED audioBuffer
    /\ lastOp' = Op("stop_recording", 0, 0)
    /\ UNCHANGED <<terminalWs, captured, startedAt, readyCount>>
    /\ BrowserFrame

\* window.terminalWs closes
TerminalWsClose ==
    /\ terminalWs = "open"
    /\ terminalWs' = "closed"
    /\ lastOp' = Op("terminal_close", 0, 0)
    /\ UNCHANGED <<isRecording, asrSessionActive, sessionReady, sendInterval, audioBuffer,
                   pendingAudioBuffer, browserSent, captured, startedAt, readyCount>>
    /\ BrowserFrame

\* the recorder of the browser client
NextBrowser ==
    \/ startRecording
    \/ onaudioprocess
    \/ SendIntervalTick
    \/ AsrReady
    \/ stopRecording
    \/ TerminalWsClose

\* startTunnel, the events of the cloudflared child, and the clients the
\* listening server accepts meanwhile
NextTunnel ==
    \/ StartTunnelProcess
    \/ WhichFails
    \/ \E match \in Urls \cup {""} : TunnelData(match)
    \/ TunnelChildError
    \/ TunnelChildClose
    \/ TunnelTimer
    \/ TunnelUp
    \/ TunnelFail
    \/ Connect

\* startSession from its first line, with the clients the server accepts meanwhile
NextStartup ==
    \/ Listen
    \/ ListenError
    \/ StartTunnelProcess
    \/ WhichFails
    \/ \E match \in Urls \cup {""} : TunnelData(match)
    \/ TunnelChildError
    \/ TunnelChildClose
    \/ TunnelTimer
    \/ TunnelUp
    \/ TunnelFail
    \/ SpawnPTY
    \/ SpawnFail
    \/ Connect
    \/ \E c \in ClientIds : Disconnect(c)
    \/ \E c \in ClientIds, d \in InputData : ptyWrites = <<>> /\ Input(c, d)
    \/ \E d \in Data : Len(produced) < MaxChunks /\ PTYData(d)
    \/ \E code \in ExitCodes : PTYExit(code)
    \/ Signal

\* ---- PIN authentication ----

\* a faulty limit: the address is blocked one failure too late
reachedLimitLate(attempts) == attempts > MAX_FAILED_ATTEMPTS

\* POST /api/login: attempts >= MAX_FAILED_ATTEMPTS
reachedLimit(attempts) == attempts >= MAX_FAILED_ATTEMPTS

\* a faulty check: a blocked address is let through
isBlockedNever(ip) == FALSE

\* the block check at the head of requireAuth and of POST /api/login
isBlocked(ip) == isIPBlocked(ip)

\* POST /api/login: !pin || typeof pin !== 'string' || pin.length !== 6
validShape(pin) == Len(pin) = 6

\* POST /api/login with body pin from address ip; the status is kept in lastOp.k
Login(ip, pin) ==
    /\ relayUp
    /\ IF isBlocked(ip)
       THEN /\ UNCHANGED authVars
            /\ lastOp' = [Op("login", 0, 429) EXCEPT !.d = ip, !.pin = pin]
       ELSE IF ~validShape(pin)
       THEN /\ UNCHANGED authVars
            /\ lastOp' = [Op("login", 0, 400) EXCEPT !.d = ip, !.pin = pin]
       ELSE IF pin = serverPIN
       THEN /\ cookies' = cookies \cup {ip}
            /\ failedAttempts' = [failedAttempts EXCEPT ![ip] = 0]
            /\ UNCHANGED <<blockedIPs, blockTimers>>
            /\ lastOp' = [Op("login", 0, 200) EXCEPT !.d = ip, !.pin = pin]
       ELSE LET attempts == failedAttempts[ip] + 1 IN
            /\ failedAttempts' = [failedAttempts EXCEPT ![ip] = attempts]
            /\ IF reachedLimit(attempts)
               THEN /\ blockedIPs' = blockedIPs \cup {ip}
                    /\ blockTimers' = blockTimers \cup {ip}
                    /\ lastOp' = [Op("login", 0, 429) EXCEPT !.d = ip, !.pin = pin]
               ELSE /\ UNCHANGED <<blockedIPs, blockTimers>>
                    /\ lastOp' = [Op("login", 0, 401) EXCEPT !.d = ip, !.pin = pin]
            /\ UNCHANGED cookies
    /\ UNCHANGED <<relayUp, connectedClients, clientInfo, wsState, clientIdCounter, wire>>
    /\ UNCHANGED <<ptyVars, asrVars, termVars>>
    /\ UNCHANGED startVars
    /\ UNCHANGED extVars

\* a request for a route registered after app.use(requireAuth)
ProtectedRequest(ip) ==
    /\ relayUp
    /\ lastOp' = [Op("request", 0, IF isBlocked(ip) THEN 429
                                   ELSE IF isAuthenticated(ip) THEN 200
                                   ELSE 302) EXCEPT !.d = ip]
    /\ UNCHANGED <<relayUp, connectedClients, clientInfo, wsState, clientIdCounter, wire>>
    /\ UNCHANGED <<ptyVars, asrVars, termVars, authVars>>
    /\ UNCHANGED startVars
    /\ UNCHANGED extVars

\* POST /api/logout: res.clearCookie('auth')
Logout(ip) ==
    /\ relayUp
    /\ cookies' = cookies \ {ip}
    /\ lastOp' = [Op("logout", 0, 200) EXCEPT !.d = ip]
    /\ UNCHANGED <<failedAttempts, blockedIPs, blockTimers>>
    /\ UNCHANGED <<relayUp, connectedClients, clientInfo, wsState, clientIdCounter, wire>>
    /\ UNCHANGED <<ptyVars, asrVars, termVars>>
    /\ UNCHANGED startVars
    /\ UNCHANGED extVars

\* the setTimeout callback of POST /api/login, BLOCK_DURATION after the block
UnblockTimer(ip) ==
    /\ relayUp
    /\ ip \in blockTimers
    /\ blockTimers' = blockTimers \ {ip}
    /\ blockedIPs' = blockedIPs \ {ip}
    /\ failedAttempts' = [failedAttempts EXCEPT ![ip] = 0]
    /\ lastOp' = [Op("unblock", 0, 0) EXCEPT !.d = ip]
    /\ UNCHANGED cookies
    /\ UNCHANGED <<relayUp, connectedClients, clientInfo, wsState, clientIdCounter, wire>>
    /\ UNCHANGED <<ptyVars, asrVars, termVars>>
    /\ UNCHANGED startVars
    /\ UNCHANGED extVars

\* the login routes, the protected routes and the /ws endpoint
NextAuth ==
    \/ \E ip \in IPs, pin \in Pins : Login(ip, pin)
    \/ \E ip \in IPs : ProtectedRequest(ip)
    \/ \E ip \in IPs : Logout(ip)
    \/ \E ip \in IPs : UnblockTimer(ip)
    \/ Connect

\* the correction requests of a client, over either kind of socket
NextCorrection ==
    \/ (clientIdCounter + 1 \in AsrClientIds /\ Connect)
    \/ \E c \in ClientIds : Disconnect(c)
    \/ \E c \in ClientIds : AsrStart(c, "")
    \/ \E c \in ClientIds : AsrStop(c)
    \/ \E c \in ClientIds : GraceTimer(c)
    \/ \E k \in ConnIds : BackendOpen(k)
    \/ \E k \in ConnIds, kind \in CorrectionBackendKinds : BackendMessage(k, Response(kind))
    \/ \E k \in ConnIds : BackendClose(k)
    \/ \E c \in ClientIds : ClaudeProcess(c)
    \/ \E i \in 1..MaxRequests : CorrOpen(i)
    \/ \E i \in 1..MaxRequests, kind \in CorrKinds : CorrMessage(i, kind)
    \/ \E i \in 1..MaxRequests : CorrError(i)
    \/ \E i \in 1..MaxRequests : CorrClose(i)

\* the broadcaster and the PTY's output stream, with the first input written
NextOutput ==
    \/ SpawnPTY
    \/ Connect
    \/ \E c \in ClientIds : ClientClosing(c)
    \/ \E c \in ClientIds : Disconnect(c)
    \/ \E c \in ClientIds, d \in InputData : ptyWrites = <<>> /\ Input(c, d)
    \/ \E d \in Data : Len(produced) < MaxChunks /\ PTYData(d)
    \/ \E code \in ExitCodes : PTYExit(code)

\* the PTY's input stream
NextInput ==
    \/ SpawnPTY
    \/ Connect
    \/ \E c \in ClientIds : ClientClosing(c)
    \/ \E c \in ClientIds : Disconnect(c)
    \/ \E c \in ClientIds, d \in InputData : Input(c, d)
    \/ \E code \in ExitCodes : PTYExit(code)

\* the callers of the PTY controller
NextController ==
    \/ SpawnPTY
    \/ Connect
    \/ \E c \in ClientIds : Disconnect(c)
    \/ \E c \in ClientIds, d \in InputData : Input(c, d)
    \/ \E c \in ClientIds, cols \in ReportCols, rows \in ReportRows : Resize(c, cols, rows)
    \/ \E code \in ExitCodes : PTYExit(code)
    \/ Signal

\* the router of client messages, with what it routes to and the first input written
NextRouter ==
    \/ SpawnPTY
    \/ (clientIdCounter + 1 \in AsrClientIds /\ Connect)
    \/ \E c \in ClientIds : Disconnect(c)
    \/ \E c \in ClientIds, d \in InputData : ptyWrites = <<>> /\ Input(c, d)
    \/ \E c \in ClientIds, cols \in ReportCols, rows \in ReportRows : Resize(c, cols, rows)
    \/ \E d \in Data : Len(produced) < MaxChunks /\ PTYData(d)
    \/ \E c \in ClientIds : AsrStart(c, "")
    \/ \E k \in ConnIds : BackendOpen(k)
    \/ \E c \in ClientIds, m \in BadMessages : BadMessage(c, m)

\* the registry and the size reconciler
NextSize ==
    \/ SpawnPTY
    \/ Connect
    \/ \E c \in ClientIds : Disconnect(c)
    \/ \E c \in ClientIds, cols \in ReportCols, rows \in ReportRows : Resize(c, cols, rows)
    \/ \E ls \in LocalSizes : LocalResize(ls)
    \/ \E code \in ExitCodes : PTYExit(code)

\* the ASR bridge of each client
NextASR ==
    \/ (clientIdCounter + 1 \in AsrClientIds /\ Connect)
    \/ \E c \in ClientIds : ClientClosing(c)
    \/ \E c \in ClientIds : Disconnect(c)
    \/ \E c \in ClientIds : AsrStart(c, "")
    \/ \E c \in ClientIds : AsrAudio(c)
    \/ \E c \in ClientIds : AsrStop(c)
    \/ \E c \in ClientIds : GraceTimer(c)
    \/ \E k \in ConnIds : BackendOpen(k)
    \/ \E k \in ConnIds, kind \in BackendKinds : BackendMessage(k, Response(kind))
    \/ \E k \in ConnIds : BackendError(k)
    \/ \E k \in ConnIds : BackendClose(k)

Next == NextOutput \/ NextInput \/ NextController \/ NextRouter \/ NextSize \/ NextASR
        \/ NextAuth \/ NextStartup \/ NextHandshake \/ NextBuffer
        \/ NextTranslate \/ NextTunnel \/ NextVortex \/ NextBrowser
        \/ NextCorrection

Spec == Init /\ [][Next]_vars
SpecOutput == Init /\ [][NextOutput]_vars
SpecInput == Init /\ [][NextInput]_vars
SpecController == Init /\ [][NextController]_vars
SpecRouter == Init /\ [][NextRouter]_vars
SpecSize == Init /\ [][NextSize]_vars
SpecASR == Init /\ [][NextASR]_vars
SpecCorrection == Init /\ [][NextCorrection]_vars
SpecAuth == Init /\ [][NextAuth]_vars
SpecStartup == InitStartup /\ [][NextStartup]_vars
SpecHandshake == Init /\ [][NextHandshake]_vars
SpecBuffer == InitBuffer /\ [][NextBuffer]_vars
SpecTranslate == Init /\ [][NextTranslate]_vars
SpecTunnel == /\ InitTunnel /\ [][NextTunnel]_vars
              /\ WF_vars(StartTunnelProcess \/ WhichFails)
              /\ WF_vars(TunnelTimer)
SpecVortex == Init /\ [][NextVortex]_vars
SpecBrowser == Init /\ [][NextBrowser]_vars

(***************************************************************************)
(* What a client has been sent, and helpers of the properties below.       *)
(***************************************************************************)
Delivered(c) == LET ToC(m) == m.to = c IN SelectSeq(wire, ToC)

Terminal(c) == LET T(m) == m.type \in {"history", "output"} IN SelectSeq(Delivered(c), T)

Outputs(c) == LET O(m) == m.type = "output" IN SelectSeq(Delivered(c), O)

Known(c) == wsState[c] # "none"

\* the chunks produced while connection c was registered with its socket OPEN
LiveChunks(c) ==
    SubSeq(produced, connectAt[c] + 1,
           IF wsState[c] = "open" THEN Len(produced) ELSE closingAt[c])

OutputMsgs(c, chunks) == [i \in 1..Len(chunks) |-> Msg(c, "output", <<chunks[i]>>, 0)]

SetMin(S) == CHOOSE m \in S : \A n \in S : m <= n

RegisteredSet == {connectedClients[i] : i \in 1..Len(connectedClients)}

MinOf(S) ==
    Size(SetMin({localSize.cols} \cup {clientInfo[c].cols : c \in S}),
         SetMin({localSize.rows} \cup {clientInfo[c].rows : c \in S}))

PositiveClients == {c \in RegisteredSet : clientInfo[c].cols > 0 /\ clientInfo[c].rows > 0}

\* C2 as stated: right after a resize report was processed with the PTY
\* running, the PTY size is the componentwise minimum of the local size and
\* the stored size of every registered client.
C2_MinOfAllStored ==
    (lastOp.op = "resize" /\ ptyProcess) => ptySize = MinOf(RegisteredSet)

\* C2 (amended): right after a resize report was processed with the PTY
\* running, the PTY size is the componentwise minimum of the local size and
\* the stored size of every registered client whose stored cols and rows are
\* both positive (an unreported client counts with the fallback 80x24).
C2_MinOfPositiveStored ==
    (lastOp.op = "resize" /\ ptyProcess) => ptySize = MinOf(PositiveClients)

\* C2 witness: two clients, one still at the fallback, and the applied size
\* takes its cols from one and its rows from the other.
C2_Witness ==
    /\ lastOp.op = "resize" /\ ptyProcess
    /\ Len(connectedClients) = 2
    /\ localSize = Size(120, 40)
    /\ ptySize = Size(80, 10)

OpenClients == LET IsOpen(c) == wsState[c] = "open" IN SelectSeq(connectedClients, IsOpen)

\* C3: each chunk the PTY emits is appended to the history buffer and sent as
\* exactly one output message to every registered client whose socket is
\* open, in registration order, and to nobody else.
C3_BroadcastEachChunk ==
    [][produced' # produced =>
          LET d == produced'[Len(produced')] IN
          /\ outputBuffer' = Append(outputBuffer, d)
          /\ wire' = wire \o [i \in 1..Len(OpenClients) |->
                                 Msg(OpenClients[i], "output", <<d>>, 0)]
      ]_vars

\* C3 witness: an input written to the PTY by a client has come back as a
\* chunk and both connected clients were sent it.
C3_Witness ==
    /\ lastOp.op = "data"
    /\ Len(ptyWrites) >= 1
    /\ produced[Len(produced)] = ptyWrites[1]
    /\ Len(OpenClients) = 2
    /\ \A c \in {1, 2} : Outputs(c) # <<>>
                         /\ Outputs(c)[Len(Outputs(c))].data = <<ptyWrites[1]>>

(***************************************************************************)
(* Properties of the ASR bridge.                                           *)
(***************************************************************************)
ConnsOf(c) == {k \in ConnIds : asrConn[k].owner = c}

HasSent(k, type) == \E i \in 1..Len(asrConn[k].sent) : asrConn[k].sent[i].type = type

\* C4: a client never has two backend connections that are connecting or
\* open at the same time.
C4_OneBackendPerClient ==
    \A c \in ClientIds :
        Cardinality({k \in ConnsOf(c) : asrConn[k].state \in {"connecting", "open"}}) <= 1

\* C5: audio_data is sent only on a backend connection that has itself
\* confirmed readiness (asr_connected was received on it), so an asr_audio
\* that arrives while the session's connection has not confirmed is dropped.
C5_AudioOnlyWhenConfirmed ==
    \A k \in ConnIds : HasSent(k, "audio_data") => asrConn[k].confirmed

\* the transitions C6 allows
AllowedAsrStep(from, to, op) ==
    \/ from = to
    \/ from = "Closed" /\ to = "Connecting" /\ op = "asr_start"
    \/ from = "Connecting" /\ to = "Ready" /\ op = "asr_connected"
    \/ from = "Ready" /\ to = "Closing" /\ op = "asr_stop"
    \/ from = "Closing" /\ to = "Closed" /\ op \in {"grace_timer", "backend_close"}
    \/ to = "Closed" /\ op \in {"disconnect", "backend_error", "error"}

\* C6: the ASR session of a client only makes the transitions
\* Closed->Connecting (asr_start), Connecting->Ready (readiness confirmed),
\* Ready->Closing (asr_stop), Closing->Closed (grace expiry or backend close)
\* and any->Closed (client disconnect or backend error).
C6_OnlyListedTransitions ==
    lastOp.c # 0 => AllowedAsrStep(lastOp.st, AsrState(lastOp.c), lastOp.op)

\* C7: every backend connection is closed by the relay once its client has
\* stopped or gone: when the client has disconnected and no grace timer of
\* it is pending, so that the relay has nothing left to run for it, none of
\* the connections its asr_start messages opened is still open.
C7_NoBackendOutlivesClient ==
    \A k \in ConnIds :
        (/\ relayUp
         /\ asrConn[k].owner # 0
         /\ wsState[asrConn[k].owner] = "closed"
         /\ timers[asrConn[k].owner] = 0)
        => asrConn[k].state # "open"

\* C8: a disconnect that finds the session Ready closes the backend
\* connection in that step and clears the handle; an asr_stop that finds it
\* Ready leaves the connection open, still held, with the grace timer armed;
\* a grace timer that fires after the client disconnected changes nothing.
C8_DisconnectClosesAtOnce ==
    [][/\ (lastOp'.op = "disconnect" /\ lastOp'.st = "Ready") =>
              /\ asrConn[lastOp'.k].state = "open"
              /\ asrConn'[lastOp'.k].state = "closing"
              /\ clientInfo'[lastOp'.c].asrWs = 0
       /\ (lastOp'.op = "asr_stop" /\ lastOp'.st = "Ready") =>
              /\ asrConn'[lastOp'.k].state = "open"
              /\ clientInfo'[lastOp'.c].asrWs = lastOp'.k
              /\ timers'[lastOp'.c] = timers[lastOp'.c] + 1
       /\ \A c \in ClientIds :
              (timers'[c] < timers[c] /\ wsState[c] = "closed") =>
                  UNCHANGED <<asrConn, clientInfo, wire, relayUp>>
      ]_vars

\* C8 witness: a client disconnected while its session was Ready with a
\* grace timer of an earlier asr_stop still pending; the connection of the
\* Ready session is closing, and the timer has fired since.
C8_Witness ==
    /\ lastOp.op = "grace_timer"
    /\ wsState[lastOp.c] = "closed"
    /\ \E k \in ConnsOf(lastOp.c) :
          /\ asrConn[k].confirmed /\ asrConn[k].stoppedIn = ""
          /\ asrConn[k].state = "closing"

Last(s) == s[Len(s)]

\* C9: an asr_stop that finds the session Ready sends one stop_asr and leaves
\* the connection open; results the backend sends before the grace timer
\* fires are forwarded to the client; and once the timer has fired the
\* stopped connection is no longer open.
C9_StopThenGraceClose ==
    /\ (lastOp.op = "asr_stop" /\ lastOp.st = "Ready") =>
           /\ Last(asrConn[lastOp.k].sent).type = "stop_asr"
           /\ asrConn[lastOp.k].state = "open"
    /\ (/\ lastOp.op \in {"partial_result", "final_result"}
        /\ lastOp.st = "Closing" /\ wsState[lastOp.c] = "open") =>
           /\ wire # <<>>
           /\ Last(wire).to = lastOp.c /\ Last(wire).type = "asr_response"
    /\ \A k \in ConnIds :
           (/\ relayUp
            /\ asrConn[k].stoppedIn = "Ready"
            /\ timers[asrConn[k].owner] = 0)
           => asrConn[k].state # "open"

\* C10: when the child process exits, every client registered with an open
\* socket is sent exactly one exit message carrying the exit code, and no
\* output message is sent to anyone in that step or later.
C10_ExitBroadcast ==
    [][/\ (ptyProcess /\ ~ptyProcess') =>
              \A c \in ClientIds :
                  (Registered(c) /\ wsState[c] = "open") =>
                      Delivered(c)' = Append(Delivered(c), Msg(c, "exit", <<>>, lastOp'.k))
       /\ ~ptyProcess => \A c \in ClientIds : Outputs(c)' = Outputs(c)
      ]_vars

(***************************************************************************)
(* History replay and gap-free delivery.                                   *)
(***************************************************************************)
Histories(c) == LET H(m) == m.type = "history" IN SelectSeq(Delivered(c), H)

HistoryPayload(c) == IF Histories(c) = <<>> THEN <<>> ELSE Histories(c)[1].data

OutputData(c) == [i \in 1..Len(Outputs(c)) |-> Outputs(c)[i].data[1]]

\* C12: for a client that is still registered with an open socket (no trim
\* having happened), the history payload it was sent followed by the data of
\* the output messages it was sent is the sequence of all chunks produced:
\* nothing twice, nothing missing.
C12_NoGapNoDuplicate ==
    \A c \in ClientIds :
        (Registered(c) /\ wsState[c] = "open") =>
            HistoryPayload(c) \o OutputData(c) = produced

\* C12 witness: a client opened between the first and the second chunk, got
\* the first as history and the second as output, and is still connected.
C12_Witness ==
    \E c \in ClientIds :
        /\ Registered(c) /\ wsState[c] = "open"
        /\ connectAt[c] = 1 /\ Len(produced) = 2
        /\ Len(HistoryPayload(c)) = 1 /\ Len(OutputData(c)) = 1

(***************************************************************************)
(* Properties of the size reconciler.                                      *)
(***************************************************************************)
\* the registered clients whose last stored report is positive in both parts
ReportedPositive ==
    {c \in RegisteredSet : /\ clientInfo[c].reported
                           /\ clientInfo[c].cols > 0 /\ clientInfo[c].rows > 0}

\* C13: whenever the PTY is running, its cols and rows are at most the cols
\* and rows of every connected client that has reported a positive size.
C13_NeverLargerThanAClient ==
    ptyProcess =>
        \A c \in ReportedPositive :
            /\ ptySize.cols <= clientInfo[c].cols
            /\ ptySize.rows <= clientInfo[c].rows

\* C14: right after the local terminal reported a new size while the PTY runs
\* and clients are registered, the PTY size is the componentwise minimum of
\* the new local size and the registered clients' (positive) stored sizes.
C14_LocalResizeReconciles ==
    (lastOp.op = "localresize" /\ ptyProcess /\ connectedClients # <<>>) =>
        ptySize = MinOf(PositiveClients)

\* C15 as stated: right after a disconnect was handled with the PTY running,
\* the client's entry is gone and the PTY size is the componentwise minimum
\* of the local size and the stored size of every remaining client.
C15_MinOfAllRemaining ==
    (lastOp.op = "disconnect" /\ ptyProcess) =>
        /\ ~Registered(lastOp.c)
        /\ ptySize = MinOf(RegisteredSet)

\* C15 (amended): right after a disconnect was handled with the PTY running,
\* the client's entry is gone and the PTY size is the componentwise minimum
\* of the local size and the stored size of every remaining client whose
\* stored cols and rows are both positive; it is exactly the local size when
\* no client remains.
C15_MinOfPositiveRemaining ==
    (lastOp.op = "disconnect" /\ ptyProcess) =>
        /\ ~Registered(lastOp.c)
        /\ ptySize = MinOf(PositiveClients)
        /\ connectedClients = <<>> => ptySize = localSize

\* C15 witness: a client left, the one that remains has reported 100x10, and
\* the PTY of a 60x20 local terminal is 60x10.
C15_Witness ==
    /\ lastOp.op = "disconnect" /\ ptyProcess
    /\ Len(connectedClients) = 1 /\ ReportedPositive # {}
    /\ localSize = Size(60, 20)
    /\ ptySize = Size(60, 10)

BackendEvents == BackendKinds \cup {"backend_open", "backend_error", "backend_close"}

\* C18: a step that handles an event of a client's backend connection (open,
\* a message of any kind, a malformed message, a socket error, close) sends
\* nothing to another client, leaves every other client's registry entry and
\* ASR state as they are, and leaves the relay up and the PTY running.
C18_BackendEventsIsolated ==
    [][lastOp'.op \in BackendEvents =>
          /\ relayUp'
          /\ ptyProcess' = ptyProcess
          /\ \A c \in ClientIds \ {lastOp'.c} :
                 /\ clientInfo'[c] = clientInfo[c]
                 /\ Delivered(c)' = Delivered(c)
                 /\ AsrStateOf(clientInfo', asrConn', c) = AsrState(c)
      ]_vars

(***************************************************************************)
(* Independence of the clients in the broadcast.                           *)
(***************************************************************************)
\* C19: in the step that produces a chunk, every registered client whose
\* socket is open is sent that chunk as its next message, whatever state the
\* other clients' sockets are in (closing, closed, or open and not reading).
C19_DeliveryIndependentOfOthers ==
    [][produced' # produced =>
          LET d == produced'[Len(produced')] IN
          \A x \in ClientIds :
              (Registered(x) /\ wsState[x] = "open") =>
                  Delivered(x)' = Append(Delivered(x), Msg(x, "output", <<d>>, 0))
      ]_vars

\* C19 witness: a chunk was produced while the client registered first was
\* closing; the client registered after it was sent the chunk, the closing
\* one was not.
C19_Witness ==
    /\ lastOp.op = "data"
    /\ connectedClients = <<1, 2>>
    /\ wsState[1] = "closing" /\ closingAt[1] < Len(produced)
    /\ wsState[2] = "open"
    /\ Last(Delivered(2)) = Msg(2, "output", <<Last(produced)>>, 0)
    /\ Len(Outputs(1)) < Len(Outputs(2))

(***************************************************************************)
(* Properties of the message router.                                       *)
(***************************************************************************)
\* C20: a client message that is not valid JSON, is not an object, or has an
\* unknown type is dropped: the relay stays up, the connection stays open and
\* registered, and the writes to the PTY, the PTY size, the history buffer,
\* the registry, every ASR session and what clients were sent stay unchanged.
C20_BadMessageDropped ==
    [][lastOp'.op = "bad_message" =>
          /\ relayUp'
          /\ wsState'[lastOp'.c] = "open"
          /\ \E i \in 1..Len(connectedClients') : connectedClients'[i] = lastOp'.c
          /\ UNCHANGED <<connectedClients, clientInfo, wsState, outputBuffer, wire>>
          /\ UNCHANGED <<ptyProcess, ptySize, ptyWrites>>
          /\ UNCHANGED <<asrConn, timers>>
      ]_vars

\* C20 witness: a message that is not JSON was handled for a client whose
\* ASR backend is open, after an input was written, a size applied and a
\* chunk buffered; the client is still registered and open.
C20_Witness ==
    /\ lastOp.op = "bad_message" /\ lastOp.d = "invalid_json"
    /\ relayUp /\ ptyProcess
    /\ Registered(lastOp.c) /\ wsState[lastOp.c] = "open"
    /\ lastOp.k # 0 /\ asrConn[lastOp.k].state = "open"
    /\ ptyWrites # <<>> /\ outputBuffer # <<>>
    /\ ReportedPositive # {}

(***************************************************************************)
(* Properties of the correction requests.                                  *)
(***************************************************************************)
\* request i has been sent, to its client, a claude_response with this payload
Replied(i, data) ==
    \E n \in 1..Len(wire) : wire[n] = Msg(claudeReqs[i].c, "claude_response", data, i)

\* C21: a claude_process request gets its terminal reply whichever socket it
\* is routed over: once the backend's correction result for the request has
\* been handled, the requesting client (if still connected) has been sent a
\* claude_response with done:true for it, and once the request's socket has
\* failed, a claude_response error whose fallback is the request's transcript.
C21_EveryRequestAnswered ==
    \A i \in 1..Len(claudeReqs) :
        wsState[claudeReqs[i].c] = "open" =>
            /\ claudeReqs[i].answer = "correction_result" => Replied(i, <<"done">>)
            /\ claudeReqs[i].state = "failed" => Replied(i, <<"error">>)

\* C22: with a PIN configured, every client registered with the relay over
\* /ws (in connectedClients, so receiving history and output and able to write
\* PTY input) connected from an origin that had authenticated with the PIN and
\* was not blocked.
C22_OnlyAuthorizedRegistered ==
    \A c \in ClientIds : Registered(c) => clientInfo[c].authorized

\* C23: the stored failure count of an address never exceeds 10 and is 10
\* exactly while the address is blocked with its unblock timer pending; a
\* login or protected request from a blocked address is answered 429 whatever
\* the PIN and changes nothing; the failure that brings the count to 10 is
\* answered 429 and blocks the address; the timer lifts the block and resets
\* the count to zero; a successful login resets the count.
C23_CountAndBlock ==
    \A ip \in IPs :
        /\ failedAttempts[ip] <= MAX_FAILED_ATTEMPTS
        /\ (failedAttempts[ip] = MAX_FAILED_ATTEMPTS) <=> (ip \in blockedIPs)
        /\ (ip \in blockedIPs) <=> (ip \in blockTimers)

C23_BlockStep ==
    \A ip \in IPs :
        /\ (lastOp'.op \in {"login", "request"} /\ lastOp'.d = ip /\ ip \in blockedIPs)
              => (lastOp'.k = 429 /\ UNCHANGED authVars)
        /\ (lastOp'.op = "login" /\ lastOp'.d = ip
               /\ failedAttempts[ip] = MAX_FAILED_ATTEMPTS - 1
               /\ lastOp'.pin # serverPIN /\ validShape(lastOp'.pin))
              => (lastOp'.k = 429 /\ ip \in blockedIPs'
                    /\ failedAttempts'[ip] = MAX_FAILED_ATTEMPTS)
        /\ (lastOp'.op = "unblock" /\ lastOp'.d = ip)
              => (ip \notin blockedIPs' /\ failedAttempts'[ip] = 0)
        /\ (lastOp'.op = "login" /\ lastOp'.d = ip /\ lastOp'.k = 200)
              => failedAttempts'[ip] = 0
        /\ (ip \in blockedIPs /\ ip \notin blockedIPs') => lastOp'.op = "unblock"

C23_BlockedAfterTenFailures == [] C23_CountAndBlock /\ [][C23_BlockStep]_vars

\* a blocked address has just been refused with the correct PIN
C23_Witness ==
    /\ lastOp.op = "login" /\ lastOp.k = 429 /\ lastOp.pin = serverPIN
    /\ lastOp.d \in blockedIPs
    /\ failedAttempts[lastOp.d] = MAX_FAILED_ATTEMPTS

StartupFailures == {"listen_error", "tunnel_failed", "spawn_failed"}

\* the relay holds an open client connection
ServesClients == relayUp /\ \E c \in ClientIds : wsState[c] = "open"

\* C24 (as stated): a startup failure ends the process with a non-zero
\* status, and the process is never in a state in which it serves clients
\* without a running PTY.
C24_NeverServesWithoutPTY ==
    /\ lastOp.op \in StartupFailures => (phase = "exited" /\ exitStatus > 0)
    /\ ServesClients => ptyProcess

\* C24 (amended): a startup failure ends the process with a non-zero status,
\* an ended process serves nothing and takes no further step, and the relay
\* serves clients without a running PTY only between binding the port and
\* the spawn, never once the spawn has been attempted.
C24_EndedOrSpawning ==
    /\ lastOp.op \in StartupFailures => (phase = "exited" /\ exitStatus > 0)
    /\ phase = "exited" => (~relayUp /\ ~ptyProcess /\ exitStatus >= 0)
    /\ (ServesClients /\ ~ptyProcess) => phase \in {"tunnel", "spawn"}

C24_StartupAborts == [] C24_EndedOrSpawning /\ [][phase # "exited"]_vars

\* the spawn failed while a client was connected: the process has ended with
\* status 1 and the client's socket is being closed
C24_Witness ==
    /\ lastOp.op = "spawn_failed" /\ exitStatus = 1
    /\ \E c \in ClientIds : wsState[c] = "closing"

\* C25: the grace timer closes only a connection on which stop_asr was sent
\* (the session that was stopped), and the close event of a connection that
\* is not the client's current one leaves the client's handle as it is.
C25_TimerStep ==
    /\ (lastOp'.op = "grace_timer" /\ lastOp'.k # 0) =>
           HasSent(lastOp'.k, "stop_asr")
    /\ (lastOp'.op = "backend_close" /\ clientInfo[lastOp'.c].asrWs # lastOp'.k) =>
           clientInfo'[lastOp'.c].asrWs = clientInfo[lastOp'.c].asrWs

C25_TimerClosesOnlyStopped == [][C25_TimerStep]_vars

\* C26: on every open backend connection the first message sent is the
\* start_asr issued by that connection's own open handler, followed by the
\* context_update of its session when the asr_start carried a context; so no
\* audio_data precedes its start_asr.
C26_StartAsrFirst ==
    \A k \in ConnIds :
        asrConn[k].state = "open" =>
            /\ Len(asrConn[k].sent) >= 1
            /\ asrConn[k].sent[1] = [type |-> "start_asr", from |-> k]
            /\ asrConn[k].context # "" =>
                   /\ Len(asrConn[k].sent) >= 2
                   /\ asrConn[k].sent[2] = [type |-> "context_update", from |-> k]

\* the k most recent chunks produced
Recent(k) == SubSeq(produced, Len(produced) - k + 1, Len(produced))

\* the history message sent to the client that has just connected
HistoryOf(c) == {i \in 1..Len(wire) : wire[i].to = c /\ wire[i].type = "history"}

\* C27 (as stated): a client that connects after more than 5000 chunks
\* were produced receives a history of exactly the 3000 most recent chunks.
C27_HistoryIsLast3000 ==
    (lastOp.op = "connect" /\ Len(produced) > MAX_BUFFER_SIZE) =>
        \E i \in HistoryOf(lastOp.c) : wire[i].data = Recent(TrimTo)

\* C27 (amended): such a client receives one history message holding the
\* whole buffer, which is the most recent 3000 + ((n - 5001) mod 2001) of
\* the n chunks produced: between 3000 and 5000 chunks, and exactly 3000
\* only when the last push trimmed.
C27_HistoryIsBuffer ==
    (lastOp.op = "connect" /\ Len(produced) > MAX_BUFFER_SIZE) =>
        /\ Cardinality(HistoryOf(lastOp.c)) = 1
        /\ \A i \in HistoryOf(lastOp.c) :
              /\ wire[i].data = Recent(TrimTo + ((Len(produced) - (MAX_BUFFER_SIZE + 1))
                                                   % (MAX_BUFFER_SIZE - TrimTo + 1)))
              /\ Len(wire[i].data) >= TrimTo
              /\ Len(wire[i].data) <= MAX_BUFFER_SIZE

\* a client connected two chunks after the trim
C27_Witness ==
    /\ lastOp.op = "connect" /\ Len(produced) = MAX_BUFFER_SIZE + 3
    /\ \E i \in HistoryOf(lastOp.c) : Len(wire[i].data) = TrimTo + 2

\* C28: the history buffer never holds more than 5000 entries, it is always
\* the contiguous suffix, in production order, of the chunks produced, ending
\* with the most recent one, and the push onto a full buffer leaves exactly
\* the 3000 most recent chunks.
C28_BufferIsSuffix ==
    /\ Len(outputBuffer) <= MAX_BUFFER_SIZE
    /\ Len(outputBuffer) <= Len(produced)
    /\ outputBuffer = Recent(Len(outputBuffer))
    /\ produced # <<>> => outputBuffer # <<>>

C28_TrimStep ==
    (Len(outputBuffer) = MAX_BUFFER_SIZE /\ Len(produced') = Len(produced) + 1) =>
        /\ Len(outputBuffer') = TrimTo
        /\ outputBuffer' = SubSeq(produced', Len(produced') - TrimTo + 1, Len(produced'))

C28_BoundedSuffix == [] C28_BufferIsSuffix /\ [][C28_TrimStep]_vars

\* the push onto the full buffer has just trimmed it
C28_Witness ==
    /\ lastOp.op = "data"
    /\ Len(produced) = MAX_BUFFER_SIZE + 1
    /\ Len(outputBuffer) = TrimTo

\* C29: when the backend has just reported an error on a connection (an
\* error message or a socket error), the error has been forwarded to the
\* client if it is still connected, and the connection is no longer open, so
\* that no later asr_audio can be forwarded on it.
C29_ErrorClosesSession ==
    lastOp.op \in {"error", "backend_error"} =>
        /\ wsState[lastOp.c] = "open" =>
               /\ wire # <<>>
               /\ Last(wire).to = lastOp.c /\ Last(wire).type = "asr_response"
               /\ Last(wire).data[1][1] = "error"
        /\ asrConn[lastOp.k].state # "open"

\* C30: a correction request is routed over the client's ASR connection
\* exactly when that connection is open, and otherwise over a short-lived
\* connection of its own; and once the relay has handled the backend's answer
\* on a short-lived connection (a result or an error message), it has closed
\* that connection.
C30_RoutedAndClosed ==
    /\ lastOp.op = "claude_process" =>
           ((Last(claudeReqs).route = "asr")
               <=> (lastOp.k # 0 /\ asrConn[lastOp.k].state = "open"))
    /\ \A i \in 1..Len(claudeReqs) :
           (claudeReqs[i].route = "short" /\ claudeReqs[i].answer # "") =>
               claudeReqs[i].state # "open"

\* the value of a field in the data of a message, "" when it is absent
Field(data, name) ==
    IF \E i \in 1..Len(data) : data[i][1] = name
    THEN data[CHOOSE i \in 1..Len(data) : data[i][1] = name][2]
    ELSE ""

\* the backend message as it arrived
AsReceived(r) ==
    << <<"type", r.type>>, <<"text", r.text>>, <<"original", r.original>>,
       <<"corrected", r.corrected>>, <<"message", r.message>> >>

\* the shape C31 maps a backend message to
MappedShape(r, data) ==
    CASE r.type = "partial_result" ->
             Field(data, "type") = "partial" /\ Field(data, "text") = r.text
      [] r.type = "final_result" ->
             /\ Field(data, "type") = "conversation.item.input_audio_transcription.completed"
             /\ Field(data, "transcript") = r.text
             /\ Field(data, "text") = r.text
      [] r.type = "correction_result" ->
             /\ Field(data, "type") = "correction_result"
             /\ Field(data, "original") = r.original
             /\ Field(data, "corrected") = r.corrected
      [] r.type = "error" ->
             Field(data, "error") = r.message
      [] r.type = "asr_connected" ->
             Field(data, "type") = "asr_ready"
      [] OTHER ->
             data = AsReceived(r)

\* the step handles a backend message
BackendMessageStep == backendMsgs' # backendMsgs /\ lastOp'.resp # NoResponse

\* the step sends the owning client exactly one message, of the mapped shape
OneMapped ==
    /\ Len(wire') = Len(wire) + 1
    /\ SubSeq(wire', 1, Len(wire)) = wire
    /\ Last(wire').to = lastOp'.c
    /\ Last(wire').type = "asr_response"
    /\ MappedShape(lastOp'.resp, Last(wire').data)

\* C31 (as stated): each backend message produces exactly one message to the
\* owning client, of the shape mapped to its kind; a kind that is not
\* recognized is forwarded unchanged.
C31_EachMessageForwarded == [][BackendMessageStep => OneMapped]_vars

SilentKinds == {"connected", "asr_disconnected", "pong"}

\* C31 (amended): a backend message of kind connected, asr_disconnected or
\* pong sends the client nothing; any other backend message sends the owning
\* client, while its connection is open, exactly one asr_response of the
\* mapped shape (asr_ready for asr_connected, the message unchanged for a
\* kind the relay does not know), and nothing once that connection is no
\* longer open.
C31_TranslateStep ==
    BackendMessageStep =>
        IF lastOp'.resp.type \in SilentKinds \/ wsState[lastOp'.c] # "open"
        THEN wire' = wire
        ELSE OneMapped

C31_ForwardedUnlessSilent == [][C31_TranslateStep]_vars

\* a correction whose two texts differ has just been forwarded
C31_Witness ==
    /\ lastOp.op = "correction_result"
    /\ lastOp.resp.original # lastOp.resp.corrected
    /\ wire # <<>>
    /\ Last(wire).type = "asr_response"
    /\ Field(Last(wire).data, "corrected") = lastOp.resp.corrected

RejectCauses == {"not_installed", "error", "exited", "timeout"}

\* C32: the promise of startTunnel, once settled, never changes; it is
\* resolved only with the first URL the tunnel process printed and rejected
\* only because the process errored, exited before a URL was found, or the 30
\* seconds elapsed without a URL, in which case the process has been killed;
\* once a URL has been found the timeout is no longer armed, so it neither
\* rejects nor kills; and the promise is eventually settled.
C32_Outcome ==
    /\ tunnelPromise.state = "resolved" =>
           (urlFound /\ firstUrl # "" /\ tunnelPromise.value = firstUrl)
    /\ tunnelPromise.state = "rejected" => tunnelPromise.value \in RejectCauses
    /\ tunnelPromise.value = "timeout" => tunnelChild \in {"killed", "closed"}
    /\ tunnelPromise.value = "exited" => tunnelChild = "closed"
    /\ urlFound => (~tunnelTimer /\ firstUrl # "")
    /\ tunnelUrl \in {"", firstUrl}
    /\ tunnelTimer => tunnelPromise.state = "pending"

C32_SettleStep ==
    /\ tunnelPromise.state # "pending" => tunnelPromise' = tunnelPromise
    /\ (lastOp'.op = "tunnel_timer" /\ urlFound) =>
           UNCHANGED <<tunnelPromise, tunnelChild, tunnelProcess>>
    /\ (lastOp'.op = "tunnel_data" /\ lastOp'.d # "" /\ ~urlFound
          /\ tunnelPromise.state = "pending") =>
           tunnelPromise' = [state |-> "resolved", value |-> lastOp'.d]
    /\ (lastOp'.op \in {"tunnel_error", "tunnel_close", "tunnel_timer"}
          /\ tunnelPromise.state = "pending") =>
           tunnelPromise'.state = "rejected"

C32_SettlesOnce ==
    /\ [] C32_Outcome
    /\ [][C32_SettleStep]_vars
    /\ <>(tunnelPromise.state # "pending")

\* the timeout rejected the start and killed the child, which then printed a URL
C32_Witness ==
    /\ tunnelPromise = [state |-> "rejected", value |-> "timeout"]
    /\ tunnelChild = "killed"
    /\ lastOp.op = "tunnel_data" /\ lastOp.d # ""

\* the messages the last step put on the wire
NewMessages == {wire'[i] : i \in (Len(wire) + 1)..Len(wire')}

NotYetClosed == {c \in ClientIds : wsState[c] \in {"open", "closing"}}

\* the registry holds exactly the connections opened and not yet closed, each once
C33_RegistryExact ==
    relayUp =>
       /\ RegisteredSet = NotYetClosed
       /\ \A i, j \in 1..Len(connectedClients) :
             connectedClients[i] = connectedClients[j] => i = j

\* an entry is added only by the connection open, with size 80x24; it is removed
\* only by the close; an output or exit message goes only to a registered connection
C33_RegistryStep ==
    /\ \A c \in ClientIds :
          (Registered(c)' /\ ~Registered(c)) =>
             /\ lastOp'.op = "connect" /\ lastOp'.c = c
             /\ clientInfo'[c].cols = 80 /\ clientInfo'[c].rows = 24
    /\ \A c \in ClientIds :
          (relayUp' /\ Registered(c) /\ ~Registered(c)') =>
             /\ lastOp'.op = "disconnect" /\ lastOp'.c = c
    /\ \A m \in NewMessages :
          m.type \in {"output", "exit"} => Registered(m.to) /\ Registered(m.to)'

\* C33: the registry contains exactly the client connections that have opened and
\* not yet closed; an entry is added once at open with size 80x24, removed at
\* close, never duplicated, and a removed connection is sent no output or exit
C33_RegistryTracksConnections == []C33_RegistryExact /\ [][C33_RegistryStep]_vars

\* output is broadcast after one connection has closed while another is registered
C33_Witness ==
    /\ lastOp.op = "data"
    /\ \E c, d \in ClientIds : wsState[c] = "closed" /\ ~Registered(c) /\ Registered(d)
    /\ Len(wire) > 0 /\ Last(wire).type = "output"

Positive(size) == size.cols > 0 /\ size.rows > 0

\* the size of the PTY is positive, and leaving a client whose stored size is
\* not positive out of the registry does not change the minimum
C34_PositiveAndExcluded ==
    /\ Positive(ptySize)
    /\ \A c \in ClientIds :
          (Registered(c) /\ ~Positive(clientInfo[c])) =>
             calculateMinSize(connectedClients, clientInfo)
                = calculateMinSize(Filter(connectedClients, c), clientInfo)

\* a resize report with zero cols or rows leaves every stored size and the PTY alone,
\* and no step lowers the PTY below the smallest positive size in play
C34_ResizeStep ==
    /\ lastOp'.op = "dropped" => clientInfo' = clientInfo /\ ptySize' = ptySize
    /\ (ptySize' # ptySize /\ lastOp'.op \in {"connect", "resize", "disconnect"}) =>
          /\ Positive(ptySize')
          /\ \/ ptySize' = localSize
             \/ \E c \in ClientIds :
                   /\ Registered(c)' /\ Positive(clientInfo'[c])
                   /\ ptySize'.cols <= clientInfo'[c].cols
                   /\ ptySize'.cols = Min(localSize.cols, ptySize'.cols)

\* C34: every size reconciliation applies to the PTY has cols > 0 and rows > 0; a
\* report with zero cols or rows leaves the stored size unchanged, and a client whose
\* stored cols or rows is not positive is excluded from the minimum
C34_AppliedSizePositive == []C34_PositiveAndExcluded /\ [][C34_ResizeStep]_vars

\* a client reported cols -1, which was stored, and the PTY runs at a positive size
C34_Witness ==
    /\ lastOp.op = "resize"
    /\ ptyProcess
    /\ \E c \in ClientIds : Registered(c) /\ clientInfo[c].cols < 0 /\ lastOp.c = c
    /\ Positive(ptySize)

\* C35: once websocket_disconnect has been handled for a connection id, the local
\* socket of that id is closed (or closing) and the connection map has no entry
\* for the id, whatever the order of the connect, the local open and the disconnect
C35_DisconnectClosesLocal ==
    \A id \in VortexConnIds :
       gatewayPhase[id] = "disconnected" =>
          /\ localWs[id] \in {"none", "closing", "closed"}
          /\ id \notin websocketConnections

\* C36: while the local socket of a connection id is open, every websocket_message
\* the gateway delivered for the id since its websocket_connect has been sent on
\* that socket, in arrival order, those delivered before the socket opened included
C36_EveryMessageForwarded ==
    \A id \in VortexConnIds :
       (localWs[id] = "open" /\ id \in websocketConnections) =>
          forwarded[id] = delivered[id]

RECURSIVE Flatten(_)
Flatten(ss) == IF ss = <<>> THEN <<>> ELSE Head(ss) \o Flatten(Tail(ss))

\* the position of the last asr_start in what the browser has sent (0 for none)
LastStart ==
    LET starts == {i \in 1..Len(browserSent) : browserSent[i].type = "asr_start"}
    IN  IF starts = {} THEN 0 ELSE CHOOSE i \in starts : \A j \in starts : j <= i

\* the audio of the asr_audio messages sent since the last asr_start, in order
SessionAudio ==
    LET after == SubSeq(browserSent, LastStart + 1, Len(browserSent))
    IN  [i \in 1..Len(after) |-> after[i].audio]

\* while recording: nothing is sent before asr_ready, nothing is pending after it,
\* and what was sent, then what is pending, then what waits for the next flush is
\* every chunk captured since asr_start, each once and in capture order
C37_PendingUntilReady ==
    (isRecording /\ terminalWs = "open") =>
       /\ ~sessionReady => SessionAudio = <<>>
       /\ sessionReady => pendingAudioBuffer = <<>>
       /\ Flatten(SessionAudio) \o Flatten(pendingAudioBuffer) \o audioBuffer
             = [i \in 1..(captured - startedAt) |-> startedAt + i]

\* the step that handles asr_ready sends exactly the pending chunks, one asr_audio
\* each and in the order they were buffered, and leaves the pending buffer empty
C37_ReadyStep ==
    lastOp'.op = "asr_ready" =>
       /\ Len(browserSent') = Len(browserSent) + Len(pendingAudioBuffer)
       /\ \A i \in 1..Len(pendingAudioBuffer) :
             browserSent'[Len(browserSent) + i] = AudioMessage(pendingAudioBuffer[i])
       /\ pendingAudioBuffer' = <<>>

\* C37: while recording, audio captured after asr_start and before asr_ready is not
\* sent but kept in the pending buffer; on asr_ready the pending chunks are sent as
\* asr_audio in capture order, each once, before any audio captured later, and the
\* pending buffer is then empty
C37_PendingFlushedInOrder == []C37_PendingUntilReady /\ [][C37_ReadyStep]_vars

\* two chunks were buffered apart before asr_ready and a third was captured and
\* not yet flushed; asr_ready has just sent the two, in the order they were captured
C37_Witness ==
    /\ isRecording /\ sessionReady
    /\ lastOp.op = "asr_ready" /\ lastOp.k = 2
    /\ SessionAudio = <<<<startedAt + 1>>, <<startedAt + 2>>>>
    /\ audioBuffer = <<startedAt + 3>>

====
